---- MODULE Spec2Model ----
(***************************************************************************)
(* Netpus: the network usage attribution and persistence engine.           *)
(*                                                                         *)
(*   internal/monitor  (monitor.go, monitor_windows.go): the sampling      *)
(*       loop, the weighted apportionment, the stat map, the write batch.  *)
(*   internal/database (db.go): usage_records, daily_summaries,            *)
(*       app_metadata and the deletion sweeps.                             *)
(*                                                                         *)
(* Time is counted in units of UPDATE_INTERVAL (500 ms).  Unix seconds are *)
(* clock \div UnitsPerSecond, as time.Time.Unix() truncates.               *)
(* Weights are kept doubled (20 / 2 / 1 for 10.0 / 1.0 / 0.5) so that the  *)
(* quotient weight/totalWeight stays an exact ratio of integers.           *)
(***************************************************************************)
EXTENDS Integers, Sequences, FiniteSets, TLC

VARIABLES
    \* ---- Counter Source (the operating system) ----
    sysUp,          \* sum of OutOctets over all interfaces (cumulative)
    sysDown,        \* sum of InOctets over all interfaces (cumulative)
    tcpConns,       \* GetExtendedTcpTable rows: <<[State, OwningPid]>>
    udpConns,       \* GetExtendedUdpTable rows: <<[OwningPid]>>
    now,            \* wall clock, in units of 500 ms
    \* ---- Monitor fields ----
    ctx,            \* "nil" | "live" | "cancelled"   (m.ctx / m.cancel)
    stats,          \* m.stats: name -> NetworkStat (a function on the names present)
    batch,          \* m.batch: sequence of batchRecord
    paused,         \* m.paused
    saveEnabled,    \* m.saveEnabled
    lastUpdate,     \* m.lastUpdate
    \* ---- control state of the goroutines ----
    startPc,        \* Start(): "new" | "sleep" | "started" | "failed"
    monPc,          \* monitorLoop: "off" | "idle" | "collect" | "cleanup" | "exited"
    monTicker,      \* monitorLoop's ticker.C holds a tick
    batchPc,        \* batchWriteLoop: "off" | "idle" | "flushing" | "exited"
    batchTicker,    \* batchWriteLoop's ticker.C holds a tick
    batchDue,       \* clock value at which batchWriteLoop's ticker fires next
    sleepUntil,     \* Start(): the clock value at which time.Sleep returns
    stopPc,         \* Stop(): "none" | "flushing" | "returned"
    flPc,           \* flushBatch per caller: "none" | "check" | "discard" | "swap" | "write"
    flBuf,          \* flushBatch per caller: the local `batch` taken by the swap
    flNow,          \* flushBatch per caller: the local `now` read after the swap
    processes,      \* the result of the latest getNetworkProcesses call
    samples,        \* the counter readings of the latest two samples (oldest first)
    collectResult,  \* what the latest collect() returned: "none" | "nil" | "error"
    \* ---- Durable Store ----
    usage_records,  \* table usage_records, in insertion order
    daily_summaries,\* table daily_summaries: date -> [total_upload, total_download]
    app_metadata,   \* table app_metadata: app_name -> [executable_path, first_seen, last_seen]
    lastDbOp,       \* what the latest flushBatch call or store statement did
    \* ---- App (app.go) and callers of the store ----
    DataRetention,  \* a.config.DataRetention
    applyPending,   \* retention arguments of UpdateSettings' goroutines not yet run
    ins,            \* the InsertUsageRecord call in progress
    \* ---- the files of the store (database.New) ----
    fs,             \* the file at dbPath, its -wal and -shm, the backups, the handle
    \* ---- locks and locals of the monitor's goroutines ----
    statsMux,       \* m.statsMux: "free" or its holder
    batchMux,       \* m.batchMux: "free" or its holder
    col,            \* the collect() call in progress: its position and locals
    snap            \* the map a GetStats call has returned to its consumer

vars == <<sysUp, sysDown, tcpConns, udpConns, now, ctx, stats, batch, paused,
          saveEnabled, lastUpdate, startPc, monPc, monTicker, batchPc,
          batchTicker, batchDue, sleepUntil, stopPc, flPc, flBuf, flNow,
          processes,
          samples, collectResult, usage_records, daily_summaries, app_metadata,
          lastDbOp,
          DataRetention, applyPending, ins, fs, statsMux, batchMux, col, snap>>

osVars      == <<sysUp, sysDown, tcpConns, udpConns>>
monitorVars == <<ctx, stats, batch, paused, saveEnabled, lastUpdate>>
threadVars  == <<startPc, monPc, monTicker, batchPc, batchTicker, batchDue,
                 sleepUntil, stopPc, flPc, flBuf, flNow>>
sampleVars  == <<processes, samples, collectResult>>
dbTables    == <<usage_records, daily_summaries, app_metadata>>
storeVars   == <<usage_records, daily_summaries, app_metadata, lastDbOp>>
lockVars    == <<statsMux, batchMux, col, snap>>
auxVars     == <<fs, lockVars>>
appVars     == <<DataRetention, applyPending, ins, auxVars>>

----------------------------------------------------------------------------
(* Units and program constants *)

UnitsPerSecond    == 2
UPDATE_INTERVAL   == 1
BATCH_INTERVAL    == 10 * UnitsPerSecond
CLEANUP_THRESHOLD == 3 * UnitsPerSecond
SecondsPerDay     == 86400
ExpirySeconds     == 24 * 3600
TCP_ESTABLISHED   == 5
TCP_LISTEN        == 2

Unix(t) == t \div UnitsPerSecond

----------------------------------------------------------------------------
(* Counter Source: process names *)

Pids    == {1, 2, 3, 4}
NoName  == ""

\* getProcessPath: the base name of the executable, "" when the process
\* cannot be opened.  Pid 3 is a protected process; pids 1 and 4 run the
\* same executable.
getProcessPath(pid) ==
    CASE pid = 1 -> "a.exe"
      [] pid = 2 -> "b.exe"
      [] pid = 4 -> "a.exe"
      [] OTHER   -> NoName

TcpRow(state, pid) == [State |-> state, OwningPid |-> pid]
UdpRow(pid)        == [OwningPid |-> pid]

----------------------------------------------------------------------------
(* getNetworkProcesses: the weighted apportionment *)

\* variant: every TCP connection weighs 1.0, whatever its state
TcpWeightIgnoringState(conn) == 2

\* weight := 1.0; if conn.State == 5 { weight = 10.0 }      (doubled)
TcpWeight2(conn) == IF conn.State = TCP_ESTABLISHED THEN 20 ELSE 2
\* weight := 0.5                                             (doubled)
UdpWeight2(conn) == 1

RECURSIVE TcpWeightOf(_, _)
TcpWeightOf(pid, conns) ==
    IF conns = <<>> THEN 0
    ELSE (IF Head(conns).OwningPid = pid THEN TcpWeight2(Head(conns)) ELSE 0)
         + TcpWeightOf(pid, Tail(conns))

RECURSIVE UdpWeightOf(_, _)
UdpWeightOf(pid, conns) ==
    IF conns = <<>> THEN 0
    ELSE (IF Head(conns).OwningPid = pid THEN UdpWeight2(Head(conns)) ELSE 0)
         + UdpWeightOf(pid, Tail(conns))

\* the keys of processWeights
WeightedPids(tcp, udp) ==
    {tcp[i].OwningPid : i \in DOMAIN tcp} \cup {udp[i].OwningPid : i \in DOMAIN udp}

\* processWeights[pid]
ProcessWeight2(pid, tcp, udp) == TcpWeightOf(pid, tcp) + UdpWeightOf(pid, udp)

RECURSIVE SumWeights(_, _, _)
SumWeights(pids, tcp, udp) ==
    IF pids = {} THEN 0
    ELSE LET p == CHOOSE x \in pids : TRUE
         IN  ProcessWeight2(p, tcp, udp) + SumWeights(pids \ {p}, tcp, udp)

\* totalWeight: every connection counts, resolvable or not
TotalWeight2(tcp, udp) == SumWeights(WeightedPids(tcp, udp), tcp, udp)

\* processNames: the pids of the tables that resolve to a name
ResolvedPids(tcp, udp) == {p \in WeightedPids(tcp, udp) : getProcessPath(p) # NoName}

\* int64(float64(total) * (weight / totalWeight))
Share(total, weight2, totalWeight2) == (total * weight2) \div totalWeight2

ProcessDataOf(pid, up, down, tcp, udp) ==
    [processID     |-> pid,
     uploadBytes   |-> Share(up, ProcessWeight2(pid, tcp, udp), TotalWeight2(tcp, udp)),
     downloadBytes |-> Share(down, ProcessWeight2(pid, tcp, udp), TotalWeight2(tcp, udp))]

\* result[name] = processData{...} is assigned once per resolvable pid while
\* ranging over the map processWeights, whose iteration order Go leaves
\* unspecified: of several pids with one name, the pid visited last stays.
ResultOwners(tcp, udp) ==
    LET names == {getProcessPath(p) : p \in ResolvedPids(tcp, udp)}
    IN  {f \in [names -> Pids] :
            \A n \in names : f[n] \in ResolvedPids(tcp, udp) /\ getProcessPath(f[n]) = n}

\* the maps getNetworkProcesses can return for one reading of the Counter Source
getNetworkProcesses(up, down, tcp, udp) ==
    IF TotalWeight2(tcp, udp) > 0
    THEN {[n \in DOMAIN f |-> ProcessDataOf(f[n], up, down, tcp, udp)] :
              f \in ResultOwners(tcp, udp)}
    ELSE {<<>>}

RECURSIVE SumUpload(_, _)
SumUpload(procs, names) ==
    IF names = {} THEN 0
    ELSE LET n == CHOOSE x \in names : TRUE
         IN  procs[n].uploadBytes + SumUpload(procs, names \ {n})

RECURSIVE SumDownload(_, _)
SumDownload(procs, names) ==
    IF names = {} THEN 0
    ELSE LET n == CHOOSE x \in names : TRUE
         IN  procs[n].downloadBytes + SumDownload(procs, names \ {n})

TotalUploadOf(procs)   == SumUpload(procs, DOMAIN procs)
TotalDownloadOf(procs) == SumDownload(procs, DOMAIN procs)

----------------------------------------------------------------------------
(* The apportionment as a pure function: the inputs are drawn by the       *)
(* initial state and one call is applied to them.                          *)

ApTotals    == {0, 7, 1000, 2000}
ApTcpTables ==
    { <<>>,
      <<TcpRow(TCP_ESTABLISHED, 1), TcpRow(TCP_ESTABLISHED, 1)>>,
      <<TcpRow(TCP_ESTABLISHED, 1), TcpRow(TCP_LISTEN, 2)>>,
      <<TcpRow(TCP_ESTABLISHED, 1), TcpRow(TCP_ESTABLISHED, 3)>>,
      <<TcpRow(TCP_ESTABLISHED, 1), TcpRow(TCP_ESTABLISHED, 1), TcpRow(TCP_ESTABLISHED, 4)>>,
      <<TcpRow(TCP_LISTEN, 2)>> }
ApUdpTables ==
    { <<>>, <<UdpRow(2)>>, <<UdpRow(3)>>, <<UdpRow(1), UdpRow(2)>> }

Reading == [up |-> sysUp, down |-> sysDown]

\* the readings of the latest two successful samples
Remember(r) == IF Len(samples) < 2 THEN Append(samples, r) ELSE <<samples[2], r>>

IdleMonitor ==
    /\ ctx = "nil" /\ stats = <<>> /\ batch = <<>>
    /\ paused = FALSE /\ saveEnabled = TRUE /\ lastUpdate = 0
    /\ startPc = "new" /\ monPc = "off" /\ monTicker = FALSE
    /\ batchPc = "off" /\ batchTicker = FALSE /\ batchDue = 0
    /\ sleepUntil = 0 /\ stopPc = "none"
    /\ flPc = [p \in {"loop", "stop"} |-> "none"]
    /\ flBuf = [p \in {"loop", "stop"} |-> <<>>]
    /\ flNow = [p \in {"loop", "stop"} |-> 0]
    /\ processes = <<>> /\ samples = <<>> /\ collectResult = "none"

\* DefaultConfig's DataRetention, no settings change under way, no single
\* insert under way
DefaultRetention == 30
NoRecord == [appName |-> "", processID |-> 0, upload |-> 0, download |-> 0,
             timestamp |-> 0, isTemporary |-> FALSE, expiresAt |-> 0]
NoInsert == [pc |-> "none", i |-> 0, waits |-> <<>>, err |-> <<>>, rec |-> NoRecord]

\* the files after New has created the store: netpus.db with its side files
\* of WAL mode, no backup, the handle open
OpenedFresh == [db |-> "ok", wal |-> "new", shm |-> "new", backups |-> <<>>,
                open |-> TRUE, err |-> "nil"]

\* no collect() call under way
NoCollect == [pc |-> "none", procs |-> <<>>, t |-> 0, todo |-> <<>>, before |-> <<>>]

\* both locks free, no collect() under way, no GetStats result handed out
IdleLocks ==
    /\ statsMux = "free" /\ batchMux = "free" /\ col = NoCollect /\ snap = <<>>

IdleApp ==
    /\ DataRetention = DefaultRetention /\ applyPending = {} /\ ins = NoInsert
    /\ fs = OpenedFresh /\ IdleLocks

EmptyStore ==
    /\ usage_records = <<>> /\ daily_summaries = <<>> /\ app_metadata = <<>>
    /\ lastDbOp = [op |-> "open", at |-> 0, rows |-> 0]

ApInit ==
    /\ sysUp \in ApTotals /\ sysDown \in ApTotals
    /\ tcpConns \in ApTcpTables /\ udpConns \in ApUdpTables
    /\ now = 1
    /\ IdleMonitor /\ EmptyStore /\ IdleApp

\* one call of getNetworkProcesses on the drawn inputs
ApCall ==
    /\ samples = <<>>
    /\ processes' \in getNetworkProcesses(sysUp, sysDown, tcpConns, udpConns)
    /\ samples' = Remember(Reading)
    /\ UNCHANGED <<appVars, collectResult, osVars, now, monitorVars, threadVars, storeVars>>

ApNext == ApCall

SpecApportion == ApInit /\ [][ApNext]_vars

LastReading == samples[Len(samples)]

\* C2: for every call with total weight W > 0 the apportioned bytes of all
\* process names add up to the amount D being apportioned, short of it by at
\* most the number of processes (one truncation each), in both directions.
\* Stated for the tables in which every owning pid resolves to a name, the
\* case most favourable to the claim.
C2_SumEqualsDelta ==
    (/\ samples # <<>>
     /\ TotalWeight2(tcpConns, udpConns) > 0
     /\ ResolvedPids(tcpConns, udpConns) = WeightedPids(tcpConns, udpConns)) =>
        LET n == Cardinality(WeightedPids(tcpConns, udpConns))
        IN  /\ TotalUploadOf(processes) <= LastReading.up
            /\ TotalUploadOf(processes) >= LastReading.up - n
            /\ TotalDownloadOf(processes) <= LastReading.down
            /\ TotalDownloadOf(processes) >= LastReading.down - n

\* two established TCP connections of pid 1 (a.exe), one UDP endpoint of
\* pid 2 (b.exe), and (1000, 2000) bytes to apportion
C4_Scenario ==
    /\ samples # <<>>
    /\ tcpConns = <<TcpRow(TCP_ESTABLISHED, 1), TcpRow(TCP_ESTABLISHED, 1)>>
    /\ udpConns = <<UdpRow(2)>>
    /\ LastReading = [up |-> 1000, down |-> 2000]

\* C4 as claimed: a.exe gets floor(1000*20/20.5) upload bytes and b.exe the
\* remainder, so that the two shares add up to exactly 1000.
C4_RemainderToB ==
    C4_Scenario =>
        /\ processes["a.exe"].uploadBytes = (1000 * 40) \div 41
        /\ processes["b.exe"].uploadBytes = 1000 - processes["a.exe"].uploadBytes
        /\ TotalUploadOf(processes) = 1000

\* C4 as amended: each share is truncated on its own; a.exe gets 975 and
\* b.exe gets floor(1000*0.5/20.5) = 24 upload bytes (1951 and 48 download
\* bytes), so the upload shares add up to 999, one byte short of 1000.
C4_EachShareTruncated ==
    C4_Scenario =>
        /\ DOMAIN processes = {"a.exe", "b.exe"}
        /\ processes["a.exe"].processID = 1 /\ processes["b.exe"].processID = 2
        /\ processes["a.exe"].uploadBytes = 975
        /\ processes["b.exe"].uploadBytes = 24
        /\ processes["a.exe"].downloadBytes = 1951
        /\ processes["b.exe"].downloadBytes = 48
        /\ TotalUploadOf(processes) = 999

C4_Witness ==
    C4_Scenario /\ DOMAIN processes = {"a.exe", "b.exe"}

----------------------------------------------------------------------------
(* Monitor.collect and Monitor.cleanupInactive *)

\* the order in which the names of one tick are appended to the batch
NameOrder == <<"a.exe", "b.exe">>

NewStat(name, pid) ==
    [AppName |-> name, ProcessID |-> pid, UploadSpeed |-> 0, DownloadSpeed |-> 0,
     TotalUpload |-> 0, TotalDownload |-> 0, LastUpdate |-> 0]

\* variant: no name is skipped
AllNames(procs) == DOMAIN procs

\* if uploadDelta == 0 && downloadDelta == 0 { continue }
ActiveNames(procs) ==
    {n \in DOMAIN procs : ~(procs[n].uploadBytes = 0 /\ procs[n].downloadBytes = 0)}

\* variant: the speed over one UPDATE_INTERVAL
SpeedPerInterval(delta, last, t) == (delta * UnitsPerSecond) \div UPDATE_INTERVAL

\* int64(float64(delta) / timeDelta), timeDelta = 1.0 when LastUpdate is the
\* zero time or the elapsed time is not positive
SpeedOf(delta, last, t) ==
    IF last = 0 \/ t - last <= 0
    THEN delta
    ELSE (delta * UnitsPerSecond) \div (t - last)

\* variant: stat.TotalUpload -= uploadDelta
Deduct(total, delta) == total - delta

\* stat.TotalUpload += uploadDelta
Accumulate(total, delta) == total + delta

UpdatedStat(st, name, data, t) ==
    LET stat == IF name \in DOMAIN st THEN st[name]
                ELSE NewStat(name, data.processID)
    IN  [stat EXCEPT
            !.UploadSpeed   = SpeedOf(data.uploadBytes, stat.LastUpdate, t),
            !.DownloadSpeed = SpeedOf(data.downloadBytes, stat.LastUpdate, t),
            !.TotalUpload   = Accumulate(stat.TotalUpload, data.uploadBytes),
            !.TotalDownload = Accumulate(stat.TotalDownload, data.downloadBytes),
            !.LastUpdate    = t]

\* m.stats after the two loops of collect
CollectStats(st, procs, t) ==
    [n \in DOMAIN st \cup ActiveNames(procs) |->
        IF n \in ActiveNames(procs) THEN UpdatedStat(st, n, procs[n], t)
        ELSE IF n \notin DOMAIN procs
             THEN [st[n] EXCEPT !.UploadSpeed = 0, !.DownloadSpeed = 0]
             ELSE st[n]]

BatchRecordOf(name, data, t) ==
    [appName |-> name, processID |-> data.processID,
     upload |-> data.uploadBytes, download |-> data.downloadBytes,
     timestamp |-> Unix(t), isTemporary |-> FALSE,
     expiresAt |-> Unix(t) + ExpirySeconds]

RECURSIVE RecordsOf(_, _, _)
RecordsOf(names, procs, t) ==
    IF names = <<>> THEN <<>>
    ELSE (IF Head(names) \in ActiveNames(procs)
          THEN <<BatchRecordOf(Head(names), procs[Head(names)], t)>>
          ELSE <<>>) \o RecordsOf(Tail(names), procs, t)

\* m.batch after collect
CollectBatch(b, procs, t) == b \o RecordsOf(NameOrder, procs, t)

\* variant: the threshold taken twice
InactiveAfterTwice(stat, t) == t - stat.LastUpdate > 2 * CLEANUP_THRESHOLD

\* now.Sub(stat.LastUpdate) > CLEANUP_THRESHOLD
Inactive(stat, t) == t - stat.LastUpdate > CLEANUP_THRESHOLD

\* m.stats after cleanupInactive
cleanupInactive(st, t) ==
    [n \in {m \in DOMAIN st : ~Inactive(st[m], t)} |-> st[n]]

\* m.stats after the caller of collect has gone on: monitorLoop runs
\* cleanupInactive right after collect, Start does not
AfterCollect(st, t, sweep) == IF sweep THEN cleanupInactive(st, t) ELSE st

\* What the Counter Source shows at a sample: the interface counters have
\* grown by some traffic since the sample before, and the tables hold the
\* connections of the moment.
MaxCounter == 30

CounterSource(traffic, tables) ==
    \E d \in traffic, t \in tables :
        /\ sysUp + d <= MaxCounter
        /\ sysUp' = sysUp + d
        /\ sysDown' = sysDown + 2 * d
        /\ tcpConns' = t[1]
        /\ udpConns' = t[2]

\* collect() returning nil: nothing is done while paused, else one sample is
\* taken and applied under statsMux
Collect(traffic, tables, sweep) ==
    /\ collectResult' = "nil"
    /\ IF paused
       THEN UNCHANGED <<osVars, stats, batch, lastUpdate, processes, samples>>
       ELSE
         /\ CounterSource(traffic, tables)
         /\ \E procs \in getNetworkProcesses(sysUp', sysDown', tcpConns', udpConns') :
               /\ processes' = procs
               /\ samples' = Remember([up |-> sysUp', down |-> sysDown'])
               /\ stats' = AfterCollect(CollectStats(stats, procs, now), now, sweep)
               /\ batch' = CollectBatch(batch, procs, now)
               /\ lastUpdate' = now

\* collect() returning the error of getNetworkProcesses
CollectErr(sweep) ==
    /\ ~paused
    /\ collectResult' = "error"
    /\ stats' = AfterCollect(stats, now, sweep)
    /\ UNCHANGED <<osVars, batch, lastUpdate, processes, samples>>

----------------------------------------------------------------------------
(* Durable Store: the statements flushBatch runs *)

\* the NULL of a column that was added without a default; it is kept apart
\* from every INTEGER a row holds (they are all >= 0)
Null == -1

\* time.Unix(ts, 0).Format("2006-01-02"): the calendar day, kept as the day
\* number (the fixed-width text compares as the day numbers do)
DateOf(ts) == ts \div SecondsPerDay

UsageRow(rec) ==
    [app_name |-> rec.appName, process_id |-> rec.processID,
     upload_bytes |-> rec.upload, download_bytes |-> rec.download,
     timestamp |-> rec.timestamp,
     is_temporary |-> IF rec.isTemporary THEN 1 ELSE 0,
     expires_at |-> rec.expiresAt]

RECURSIVE UsageRows(_)
UsageRows(buf) ==
    IF buf = <<>> THEN <<>> ELSE <<UsageRow(Head(buf))>> \o UsageRows(Tail(buf))

\* BatchInsertUsageRecords, committed
BatchInsertUsageRecords(table, buf) == table \o UsageRows(buf)

RECURSIVE BatchUpload(_)
BatchUpload(buf) == IF buf = <<>> THEN 0 ELSE Head(buf).upload + BatchUpload(Tail(buf))

RECURSIVE BatchDownload(_)
BatchDownload(buf) == IF buf = <<>> THEN 0 ELSE Head(buf).download + BatchDownload(Tail(buf))

BatchApps(buf) == {buf[i].appName : i \in DOMAIN buf}

\* the first record of the app in the batch
FirstIndexOf(buf, app) ==
    CHOOSE i \in DOMAIN buf :
        buf[i].appName = app /\ \A j \in DOMAIN buf : buf[j].appName = app => i <= j

\* appMetadataMap[rec.appName], set by the first record of the app only
AppMetadataOf(buf, app, t) ==
    [AppName |-> app, ExecutablePath |-> app,
     FirstSeen |-> buf[FirstIndexOf(buf, app)].timestamp, LastSeen |-> Unix(t)]

\* INSERT ... ON CONFLICT(app_name) DO UPDATE SET executable_path, last_seen
UpsertAppMetadata(table, m) ==
    IF m.AppName \in DOMAIN table
    THEN [table EXCEPT ![m.AppName] =
             [@ EXCEPT !.executable_path = m.ExecutablePath, !.last_seen = m.LastSeen]]
    ELSE [a \in DOMAIN table \cup {m.AppName} |->
             IF a = m.AppName
             THEN [executable_path |-> m.ExecutablePath,
                   first_seen |-> m.FirstSeen, last_seen |-> m.LastSeen]
             ELSE table[a]]

RECURSIVE UpsertAll(_, _, _, _)
UpsertAll(table, buf, apps, t) ==
    IF apps = {} THEN table
    ELSE LET a == CHOOSE x \in apps : TRUE
         IN  UpsertAll(UpsertAppMetadata(table, AppMetadataOf(buf, a, t)),
                       buf, apps \ {a}, t)

\* variant: total_upload = excluded.total_upload
ReplaceSummary(old, new) == new

\* total_upload = total_upload + excluded.total_upload
AddToSummary(old, new) == old + new

\* INSERT ... ON CONFLICT(date) DO UPDATE SET total_* = total_* + excluded.total_*
UpdateDailySummary(table, date, upload, download) ==
    IF date \in DOMAIN table
    THEN [table EXCEPT ![date] =
             [total_upload   |-> AddToSummary(@.total_upload, upload),
              total_download |-> AddToSummary(@.total_download, download)]]
    ELSE [d \in DOMAIN table \cup {date} |->
             IF d = date
             THEN [total_upload |-> upload, total_download |-> download]
             ELSE table[d]]

\* flushBatch from the batch insert on, the insert having committed: the
\* metadata upserts (those of metaOk succeed, a failure is printed) with
\* LastSeen the `now` that flushBatch read at time seen, before the insert,
\* and the daily summary of today (it succeeds when summaryOk)
StoreWriteAt(buf, metaOk, summaryOk, seen) ==
    /\ usage_records' = BatchInsertUsageRecords(usage_records, buf)
    /\ app_metadata' = UpsertAll(app_metadata, buf, metaOk, seen)
    /\ daily_summaries' =
          IF summaryOk
          THEN UpdateDailySummary(daily_summaries, DateOf(Unix(now)),
                                  BatchUpload(buf), BatchDownload(buf))
          ELSE daily_summaries
    /\ lastDbOp' = [op |-> IF summaryOk THEN "flush" ELSE "flush-nosummary",
                    at |-> Unix(now), rows |-> Len(buf)]

\* flushBatch running without interruption
StoreWrite(buf, metaOk, summaryOk) == StoreWriteAt(buf, metaOk, summaryOk, now)

----------------------------------------------------------------------------
(* The engine, one step per call: Start's two samples, one iteration of    *)
(* each loop, flushBatch, Stop and the flag setters.                       *)

\* Between two samples the upload counter grows by an amount of Traffic (the
\* download counter by twice as much) and the tables are one of Tables.
\* Between two steps of the engine the clock moves by one of ClockSteps:
\* 3.5 s, longer than CLEANUP_THRESHOLD; a ticker that fires several times
\* meanwhile leaves one tick in its channel.
Traffic  == {0, 20}
Tables   ==
    { <<<<>>, <<>>>>,
      <<<<TcpRow(TCP_ESTABLISHED, 1), TcpRow(TCP_ESTABLISHED, 1)>>, <<UdpRow(2)>>>> }
MaxClock   == 29
ClockSteps == {7}

\* Start: context.WithCancel, then the first collect
StartFirst ==
    /\ startPc = "new" /\ stopPc = "none"
    /\ ctx' = "live"
    /\ \/ Collect(Traffic, Tables, FALSE)
          /\ startPc' = "sleep" /\ sleepUntil' = now + UPDATE_INTERVAL
       \/ CollectErr(FALSE) /\ startPc' = "failed" /\ UNCHANGED sleepUntil
    /\ UNCHANGED <<appVars, now, storeVars, paused, saveEnabled, monPc, monTicker,
                   batchPc, batchTicker, batchDue, stopPc, flPc, flBuf, flNow>>

\* variant: Start without time.Sleep(UPDATE_INTERVAL)
SleepSkipped == TRUE

\* time.Sleep(UPDATE_INTERVAL) has returned
SleepOver == now >= sleepUntil

\* Start: after time.Sleep(UPDATE_INTERVAL) the second collect, then
\* go m.monitorLoop(); go m.batchWriteLoop()
StartSecond ==
    /\ startPc = "sleep" /\ SleepOver
    /\ \/ /\ Collect(Traffic, Tables, FALSE)
          /\ startPc' = "started" /\ monPc' = "idle" /\ batchPc' = "idle"
          /\ batchDue' = now + BATCH_INTERVAL
       \/ /\ CollectErr(FALSE)
          /\ startPc' = "failed"
          /\ UNCHANGED <<monPc, batchPc, batchDue>>
    /\ UNCHANGED <<appVars, now, storeVars, ctx, paused, saveEnabled, monTicker,
                   batchTicker, sleepUntil, stopPc, flPc, flBuf, flNow>>

\* monitorLoop, case <-ticker.C: nothing while paused; else collect (an
\* error is printed) and cleanupInactive
Tick ==
    /\ monPc = "idle" /\ monTicker
    /\ monTicker' = FALSE
    /\ (Collect(Traffic, Tables, TRUE) \/ CollectErr(TRUE))
    /\ UNCHANGED <<appVars, now, storeVars, ctx, paused, saveEnabled, startPc, monPc,
                   batchPc, batchTicker, batchDue, sleepUntil, stopPc, flPc, flBuf, flNow>>

\* variant: monitorLoop ignores m.ctx.Done()
MonNeverDone ==
    /\ monPc = "idle" /\ ctx = "cancelled"
    /\ UNCHANGED vars

\* monitorLoop: case <-m.ctx.Done()
MonDone ==
    /\ monPc = "idle" /\ ctx = "cancelled"
    /\ monPc' = "exited"
    /\ UNCHANGED <<appVars, osVars, now, monitorVars, sampleVars, storeVars, startPc, monTicker,
                   batchPc, batchTicker, batchDue, sleepUntil, stopPc, flPc, flBuf, flNow>>

\* batchWriteLoop: case <-m.ctx.Done()
BatchDone ==
    /\ batchPc = "idle" /\ ctx = "cancelled" /\ flPc["loop"] = "none"
    /\ batchPc' = "exited"
    /\ UNCHANGED <<appVars, osVars, now, monitorVars, sampleVars, storeVars, startPc, monPc,
                   monTicker, batchTicker, batchDue, sleepUntil, stopPc, flPc, flBuf, flNow>>

\* what the latest flushBatch call or store statement did, and to how many rows
Outcome(op, rows) == [op |-> op, at |-> Unix(now), rows |-> rows]

\* variant: flushBatch without the test of m.saveEnabled
flushBatchWithoutSaveCheck ==
    IF batch = <<>>
    THEN UNCHANGED <<batch, storeVars>>
    ELSE /\ batch' = <<>>
         /\ \E metaOk \in SUBSET BatchApps(batch), summaryOk \in BOOLEAN :
               StoreWrite(batch, metaOk, summaryOk)

\* variant: a batch whose insert failed is put back into m.batch
flushBatchRequeue ==
    IF ~saveEnabled
    THEN /\ batch' = <<>>
         /\ lastDbOp' = Outcome("discard", Len(batch))
         /\ UNCHANGED dbTables
    ELSE IF batch = <<>>
    THEN UNCHANGED <<batch, storeVars>>
    ELSE \/ /\ batch' = batch
            /\ lastDbOp' = Outcome("insert-failed", 0) /\ UNCHANGED dbTables
         \/ /\ batch' = <<>>
            /\ \E metaOk \in SUBSET BatchApps(batch), summaryOk \in BOOLEAN :
                  StoreWrite(batch, metaOk, summaryOk)

\* flushBatch from entry to return
flushBatch ==
    IF ~saveEnabled
    THEN /\ batch' = <<>>
         /\ lastDbOp' = Outcome("discard", Len(batch))
         /\ UNCHANGED dbTables
    ELSE IF batch = <<>>
    THEN UNCHANGED <<batch, storeVars>>
    ELSE /\ batch' = <<>>
         /\ \/ lastDbOp' = Outcome("insert-failed", 0) /\ UNCHANGED dbTables
            \/ \E metaOk \in SUBSET BatchApps(batch), summaryOk \in BOOLEAN :
                  StoreWrite(batch, metaOk, summaryOk)

\* batchWriteLoop, case <-ticker.C: m.flushBatch()
Flush ==
    /\ batchPc = "idle" /\ batchTicker
    /\ batchTicker' = FALSE
    /\ flushBatch
    /\ UNCHANGED <<appVars, osVars, now, sampleVars, ctx, stats, paused, saveEnabled, lastUpdate,
                   startPc, monPc, monTicker, batchPc, batchDue, sleepUntil, stopPc,
                   flPc, flBuf, flNow>>

\* Stop: if m.cancel != nil { m.cancel() }; m.flushBatch()
Stop ==
    /\ stopPc = "none" /\ startPc \in {"started", "failed"}
    /\ ctx' = IF ctx = "nil" THEN "nil" ELSE "cancelled"
    /\ flushBatch
    /\ stopPc' = "returned"
    /\ UNCHANGED <<appVars, osVars, now, sampleVars, stats, paused, saveEnabled, lastUpdate,
                   startPc, monPc, monTicker, batchPc, batchTicker, batchDue,
                   sleepUntil, flPc, flBuf, flNow>>

Pause ==
    /\ ~paused
    /\ paused' = TRUE
    /\ UNCHANGED <<appVars, osVars, now, sampleVars, storeVars, threadVars, ctx, stats, batch,
                   saveEnabled, lastUpdate>>

Resume ==
    /\ paused
    /\ paused' = FALSE
    /\ UNCHANGED <<appVars, osVars, now, sampleVars, storeVars, threadVars, ctx, stats, batch,
                   saveEnabled, lastUpdate>>

SetSaveEnabled(enabled) ==
    /\ saveEnabled # enabled
    /\ saveEnabled' = enabled
    /\ UNCHANGED <<appVars, osVars, now, sampleVars, storeVars, threadVars, ctx, stats, batch,
                   paused, lastUpdate>>

\* the first firing time of a ticker after t, given one that was due at due
NextDue(due, interval, t) == due + ((t - due) \div interval + 1) * interval

\* time passes: a ticker whose time has come puts a tick in its channel
\* (capacity 1; a tick that finds the channel full is dropped)
ClockAdvance ==
    /\ stopPc = "none"
    /\ \E d \in ClockSteps :
          /\ now + d <= MaxClock
          /\ now' = now + d
    /\ monTicker' = IF monPc \in {"idle", "collect", "cleanup"} THEN TRUE ELSE monTicker
    /\ IF batchPc \in {"idle", "flushing"} /\ now' >= batchDue
       THEN /\ batchTicker' = TRUE
            /\ batchDue' = NextDue(batchDue, BATCH_INTERVAL, now')
       ELSE UNCHANGED <<batchTicker, batchDue>>
    /\ UNCHANGED <<appVars, osVars, monitorVars, sampleVars, storeVars, startPc, monPc, batchPc,
                   sleepUntil, stopPc, flPc, flBuf, flNow>>

Init ==
    /\ sysUp = 10 /\ sysDown = 20
    /\ tcpConns = <<>> /\ udpConns = <<>>
    /\ now = 1
    /\ IdleMonitor /\ EmptyStore /\ IdleApp

Next ==
    \/ StartFirst
    \/ StartSecond
    \/ Tick
    \/ MonDone
    \/ Flush
    \/ BatchDone
    \/ Stop
    \/ Pause
    \/ Resume
    \/ \E e \in BOOLEAN : SetSaveEnabled(e)
    \/ ClockAdvance

Spec == Init /\ [][Next]_vars

\* The same engine with the scheduling a select gives: a loop that is back at
\* its select with m.ctx.Done() closed takes that case sooner or later.
SpecFair == Init /\ [][Next]_vars /\ WF_vars(MonDone) /\ WF_vars(BatchDone)

----------------------------------------------------------------------------
(* Properties of the engine *)

\* C3: what a sample apportions is the growth of the interface counters
\* since the sample before it, never the counters themselves, and the very
\* first sample apportions nothing.
C3_DeltaSincePreviousSample ==
    /\ Len(samples) = 1 =>
          TotalUploadOf(processes) = 0 /\ TotalDownloadOf(processes) = 0
    /\ Len(samples) = 2 =>
          /\ TotalUploadOf(processes) <= samples[2].up - samples[1].up
          /\ TotalDownloadOf(processes) <= samples[2].down - samples[1].down

\* C5: as long as an entry stays in the stat map, no step of the engine
\* (tick, pause, resume, flush, stop) lowers its TotalUpload or TotalDownload.
C5_TotalsNeverDecrease ==
    [][\A n \in DOMAIN stats \cap DOMAIN stats' :
          /\ stats'[n].TotalUpload >= stats[n].TotalUpload
          /\ stats'[n].TotalDownload >= stats[n].TotalDownload]_vars

\* an entry that has been added to by more than one sample
C5_Witness ==
    \E n \in DOMAIN stats \cap DOMAIN processes :
        /\ processes[n].uploadBytes > 0
        /\ stats[n].TotalUpload > processes[n].uploadBytes

\* a step in which monitorLoop takes a tick while the monitor is not paused
SamplingTick == monTicker /\ ~monTicker' /\ ~paused

\* C6: after a sampling tick (a tick taken while not paused, whether or not
\* its sample succeeds) the stat map holds no entry whose last attributed
\* traffic is more than CLEANUP_THRESHOLD (3 s) old.
C6_IdleEntriesSwept ==
    [][SamplingTick =>
          \A n \in DOMAIN stats' : ~(now' - stats'[n].LastUpdate > CLEANUP_THRESHOLD)]_vars

\* a.exe had traffic attributed (its record is still buffered), then went
\* idle, and the tick just taken has removed it from the stat map
C6_Witness ==
    /\ monPc = "idle" /\ ~monTicker /\ ~paused
    /\ "a.exe" \notin DOMAIN stats
    /\ \E i \in DOMAIN batch :
          batch[i].appName = "a.exe" /\ Unix(now) - batch[i].timestamp > 3

\* a step in which flushBatch runs: batchWriteLoop's tick or Stop
FlushStep ==
    \/ batchTicker /\ ~batchTicker'
    \/ stopPc = "none" /\ stopPc' = "returned"

\* C7: while saving is disabled, a flush writes nothing (usage_records,
\* app_metadata and daily_summaries are as before) and leaves the buffer empty.
C7_DisabledFlushDiscards ==
    [][(FlushStep /\ ~saveEnabled) =>
          /\ batch' = <<>>
          /\ usage_records' = usage_records
          /\ app_metadata' = app_metadata
          /\ daily_summaries' = daily_summaries]_vars

\* a flush has just discarded a buffer that held records
C7_Witness ==
    /\ ~saveEnabled
    /\ lastDbOp.op = "discard" /\ lastDbOp.rows > 0
    /\ batch = <<>>

Today == DateOf(Unix(now))

SummaryOf(table, date) ==
    IF date \in DOMAIN table THEN table[date]
    ELSE [total_upload |-> 0, total_download |-> 0]

\* a step in which a flush inserts its records and updates the daily summary
SuccessfulFlush ==
    /\ FlushStep
    /\ usage_records' # usage_records
    /\ lastDbOp'.op = "flush"

\* C8: a successful flush adds the totals of its batch to the row of the
\* day, whatever the row held: after flushes of (u1,d1) and (u2,d2) the row
\* is (u1+u2, d1+d2).
C8_SummaryAdditive ==
    [][SuccessfulFlush =>
          /\ Today \in DOMAIN daily_summaries'
          /\ daily_summaries'[Today].total_upload =
                SummaryOf(daily_summaries, Today).total_upload + BatchUpload(batch)
          /\ daily_summaries'[Today].total_download =
                SummaryOf(daily_summaries, Today).total_download + BatchDownload(batch)]_vars

RECURSIVE RowsUpload(_)
RowsUpload(rows) ==
    IF rows = <<>> THEN 0 ELSE Head(rows).upload_bytes + RowsUpload(Tail(rows))

\* two flushes have written records with traffic on the same day and the
\* row of the day holds the sum of both
C8_Witness ==
    /\ lastDbOp.op = "flush"
    /\ lastDbOp.rows < Len(usage_records)
    /\ Today \in DOMAIN daily_summaries
    /\ LET k      == Len(usage_records) - lastDbOp.rows
           first  == SubSeq(usage_records, 1, k)
           second == SubSeq(usage_records, k + 1, Len(usage_records))
       IN  /\ RowsUpload(first) > 0 /\ RowsUpload(second) > 0
           /\ daily_summaries[Today].total_upload = RowsUpload(first) + RowsUpload(second)

----------------------------------------------------------------------------
(* The engine, one step per critical section: the goroutines of            *)
(* monitorLoop, batchWriteLoop and a caller of Stop interleave between     *)
(* their lock acquisitions.                                                *)

ConcTraffic == {0}
ConcTables  ==
    { <<<<TcpRow(TCP_ESTABLISHED, 1), TcpRow(TCP_ESTABLISHED, 1)>>, <<UdpRow(2)>>>> }
Callers     == {"loop", "stop"}

\* variant: monitorLoop without the test of m.paused
MonTickIgnoringPause ==
    /\ monPc = "idle" /\ monTicker
    /\ monTicker' = FALSE
    /\ monPc' = "collect"
    /\ UNCHANGED <<appVars, osVars, now, monitorVars, sampleVars, storeVars, startPc, batchPc,
                   batchTicker, batchDue, sleepUntil, stopPc, flPc, flBuf, flNow>>

\* monitorLoop: case <-ticker.C, and the read of m.paused under pauseMux
MonTick ==
    /\ monPc = "idle" /\ monTicker
    /\ monTicker' = FALSE
    /\ monPc' = IF paused THEN "idle" ELSE "collect"
    /\ UNCHANGED <<appVars, osVars, now, monitorVars, sampleVars, storeVars, startPc, batchPc,
                   batchTicker, batchDue, sleepUntil, stopPc, flPc, flBuf, flNow>>

\* monitorLoop: m.collect()
MonCollect ==
    /\ monPc = "collect"
    /\ monPc' = "cleanup"
    /\ (Collect(ConcTraffic, ConcTables, FALSE) \/ CollectErr(FALSE))
    /\ UNCHANGED <<appVars, now, storeVars, ctx, paused, saveEnabled, startPc, monTicker,
                   batchPc, batchTicker, batchDue, sleepUntil, stopPc, flPc, flBuf, flNow>>

\* monitorLoop: m.cleanupInactive(), under statsMux
MonCleanup ==
    /\ monPc = "cleanup" /\ statsMux = "free"
    /\ monPc' = "idle"
    /\ stats' = cleanupInactive(stats, now)
    /\ UNCHANGED <<appVars, osVars, now, sampleVars, storeVars, ctx, batch, paused, saveEnabled,
                   lastUpdate, startPc, monTicker, batchPc, batchTicker, batchDue,
                   sleepUntil, stopPc, flPc, flBuf, flNow>>

\* batchWriteLoop: case <-ticker.C, entering m.flushBatch()
BatchTick ==
    /\ batchPc = "idle" /\ batchTicker
    /\ batchTicker' = FALSE
    /\ batchPc' = "flushing"
    /\ flPc' = [flPc EXCEPT !["loop"] = "check"]
    /\ UNCHANGED <<appVars, osVars, now, monitorVars, sampleVars, storeVars, startPc, monPc,
                   monTicker, batchDue, sleepUntil, stopPc, flBuf, flNow>>

\* Stop: m.cancel(), entering m.flushBatch()
StopCancel ==
    /\ stopPc = "none" /\ startPc \in {"started", "failed"}
    /\ ctx' = IF ctx = "nil" THEN "nil" ELSE "cancelled"
    /\ stopPc' = "flushing"
    /\ flPc' = [flPc EXCEPT !["stop"] = "check"]
    /\ UNCHANGED <<appVars, osVars, now, sampleVars, storeVars, stats, batch, paused, saveEnabled,
                   lastUpdate, startPc, monPc, monTicker, batchPc, batchTicker,
                   batchDue, sleepUntil, flBuf, flNow>>

\* flushBatch returning to its caller
FlushReturn(p) ==
    /\ flPc' = [flPc EXCEPT ![p] = "none"]
    /\ batchPc' = IF p = "loop" THEN "idle" ELSE batchPc
    /\ stopPc' = IF p = "stop" THEN "returned" ELSE stopPc

\* flushBatch: the read of m.saveEnabled under saveMux
FlushCheck(p) ==
    /\ flPc[p] = "check"
    /\ flPc' = [flPc EXCEPT ![p] = IF saveEnabled THEN "swap" ELSE "discard"]
    /\ UNCHANGED <<appVars, osVars, now, monitorVars, sampleVars, storeVars, startPc, monPc,
                   monTicker, batchPc, batchTicker, batchDue, sleepUntil, stopPc, flBuf, flNow>>

\* flushBatch, saving disabled: m.batch = make([]batchRecord, 0) under batchMux
FlushDiscard(p) ==
    /\ flPc[p] = "discard" /\ batchMux = "free"
    /\ batch' = <<>>
    /\ lastDbOp' = Outcome("discard", Len(batch))
    /\ FlushReturn(p)
    /\ UNCHANGED <<appVars, osVars, now, sampleVars, dbTables, ctx, stats, paused, saveEnabled,
                   lastUpdate, startPc, monPc, monTicker, batchTicker, batchDue,
                   sleepUntil, flBuf, flNow>>

\* variant: defer m.batchMux.Unlock()
HeldUntilReturn(p) == p

\* the holder of batchMux once flushBatch has taken the batch:
\* m.batchMux.Unlock() comes before the records are converted and written
HeldAfterSwap(p) == "free"

\* variant: the taken batch stays in m.batch
BatchKept(b) == b

\* m.batch = make([]batchRecord, 0)
FreshBatch(b) == <<>>

\* flushBatch: under batchMux, return when the batch is empty, else take it;
\* then, the lock released, now := time.Now().Unix()
FlushSwap(p) ==
    /\ flPc[p] = "swap" /\ batchMux = "free"
    /\ IF batch = <<>>
       THEN FlushReturn(p) /\ UNCHANGED <<batch, flBuf, flNow, batchMux>>
       ELSE /\ flBuf' = [flBuf EXCEPT ![p] = batch]
            /\ flNow' = [flNow EXCEPT ![p] = now]
            /\ batch' = FreshBatch(batch)
            /\ batchMux' = HeldAfterSwap(p)
            /\ flPc' = [flPc EXCEPT ![p] = "write"]
            /\ UNCHANGED <<batchPc, stopPc>>
    /\ UNCHANGED <<DataRetention, applyPending, ins, fs, statsMux, col, snap, osVars, now,
                   sampleVars, storeVars, ctx, stats, paused, saveEnabled,
                   lastUpdate, startPc, monPc, monTicker, batchTicker, batchDue,
                   sleepUntil>>

\* flushBatch: the batch insert (it may fail), then the metadata upserts and
\* the daily summary (here they succeed)
FlushWrite(p) ==
    /\ flPc[p] = "write"
    /\ flBuf' = [flBuf EXCEPT ![p] = <<>>]
    /\ flNow' = [flNow EXCEPT ![p] = 0]
    /\ \/ lastDbOp' = Outcome("insert-failed", 0) /\ UNCHANGED dbTables
       \/ StoreWriteAt(flBuf[p], BatchApps(flBuf[p]), TRUE, flNow[p])
    /\ FlushReturn(p)
    /\ UNCHANGED <<appVars, osVars, now, monitorVars, sampleVars, startPc, monPc, monTicker,
                   batchTicker, batchDue, sleepUntil>>

ConcNext ==
    \/ StartFirst
    \/ StartSecond
    \/ MonTick
    \/ MonCollect
    \/ MonCleanup
    \/ MonDone
    \/ BatchTick
    \/ BatchDone
    \/ StopCancel
    \/ \E p \in Callers : FlushCheck(p)
    \/ \E p \in Callers : FlushDiscard(p)
    \/ \E p \in Callers : FlushSwap(p)
    \/ \E p \in Callers : FlushWrite(p)
    \/ Pause
    \/ Resume
    \/ \E e \in BOOLEAN : SetSaveEnabled(e)
    \/ ClockAdvance

SpecConc == Init /\ [][ConcNext]_vars

\* C1: at the moment Stop returns nothing is left unsaved: the pending
\* buffer is empty and batchWriteLoop's flush holds no records it has taken
\* from the buffer and not yet written.
C1_StopLeavesNothingBuffered ==
    [][(stopPc # "returned" /\ stopPc' = "returned") =>
          (batch' = <<>> /\ flBuf'["loop"] = <<>>)]_vars

----------------------------------------------------------------------------
(* The Durable Store on its own: batches are inserted, the expiry sweep    *)
(* runs, and the clock moves by half days.  The store may have been        *)
(* created before usage_records had the column expires_at.                 *)

SecondsPerHalfDay == 12 * 3600
HalfDay      == SecondsPerHalfDay * UnitsPerSecond
MaxRows      == 3
MaxHalfDays  == 4

\* a row written before migrateSchema added expires_at (NULL) and
\* is_temporary (DEFAULT 0)
LegacyRow(app, pid) ==
    [app_name |-> app, process_id |-> pid, upload_bytes |-> 5, download_bytes |-> 5,
     timestamp |-> 0, is_temporary |-> 0, expires_at |-> Null]

LegacyStores ==
    { <<>>, <<LegacyRow("a.exe", 1)>>, <<LegacyRow("a.exe", 1), LegacyRow("b.exe", 2)>> }

\* the batches a flush may bring at time t
StoreBatches(t) ==
    LET a == [processID |-> 1, uploadBytes |-> 9, downloadBytes |-> 19]
        b == [processID |-> 2, uploadBytes |-> 0, downloadBytes |-> 1]
    IN  { <<BatchRecordOf("a.exe", a, t)>>,
          <<BatchRecordOf("a.exe", a, t), BatchRecordOf("b.exe", b, t)>> }

\* COALESCE(expires_at, 0): the ExpiresAt a reader of the row is given
ExpiresAtOf(row) == IF row.expires_at = Null THEN 0 ELSE row.expires_at

\* variant: WHERE expires_at > 0 AND expires_at <= ?
ExpiredOrDue(row, t) ==
    row.expires_at # Null /\ row.expires_at > 0 /\ row.expires_at <= t

\* WHERE expires_at > 0 AND expires_at < ?     (NULL satisfies no comparison)
Expired(row, t) ==
    row.expires_at # Null /\ row.expires_at > 0 /\ row.expires_at < t

\* variant: the DELETE stops after the first row it matches
RECURSIVE DeleteFirstExpired(_, _)
DeleteFirstExpired(table, t) ==
    IF table = <<>> THEN <<>>
    ELSE IF Expired(Head(table), t) THEN Tail(table)
    ELSE <<Head(table)>> \o DeleteFirstExpired(Tail(table), t)

RECURSIVE DeleteExpiredRecords(_, _)
\* DELETE FROM usage_records WHERE expires_at > 0 AND expires_at < now
DeleteExpiredRecords(table, t) ==
    IF table = <<>> THEN <<>>
    ELSE (IF Expired(Head(table), t) THEN <<>> ELSE <<Head(table)>>)
         \o DeleteExpiredRecords(Tail(table), t)

\* variant: WHERE timestamp <= ?
OldOrAtCutoff(row, cutoff) == row.timestamp <= cutoff /\ row.is_temporary = 0

\* WHERE timestamp < ? AND is_temporary = 0
Old(row, cutoff) == row.timestamp < cutoff /\ row.is_temporary = 0

RECURSIVE DeleteOldUsage(_, _)
\* DELETE FROM usage_records WHERE timestamp < ? AND is_temporary = 0
DeleteOldUsage(table, cutoff) ==
    IF table = <<>> THEN <<>>
    ELSE (IF Old(Head(table), cutoff) THEN <<>> ELSE <<Head(table)>>)
         \o DeleteOldUsage(Tail(table), cutoff)

\* variant: DELETE FROM daily_summaries WHERE date <= cutoffDate
DeleteSummariesThrough(table, cutoff) ==
    [d \in {x \in DOMAIN table : ~(x <= DateOf(cutoff))} |-> table[d]]

\* cutoffDate := time.Unix(beforeTimestamp, 0).Format("2006-01-02");
\* DELETE FROM daily_summaries WHERE date < cutoffDate
DeleteOldSummaries(table, cutoff) ==
    [d \in {x \in DOMAIN table : ~(x < DateOf(cutoff))} |-> table[d]]

\* DeleteOldRecords(beforeTimestamp): two statements, no transaction.  failAt
\* is the statement whose Exec fails (0: neither); the statements before it
\* have taken effect, the error is returned.
DeleteOldRecords(records, summaries, cutoff, failAt) ==
    [usage_records   |-> IF failAt = 1 THEN records ELSE DeleteOldUsage(records, cutoff),
     daily_summaries |-> IF failAt = 0 THEN DeleteOldSummaries(summaries, cutoff)
                         ELSE summaries,
     err |-> IF failAt = 1 THEN "failed to delete old usage records"
             ELSE IF failAt = 2 THEN "failed to delete old daily summaries"
             ELSE "nil"]

StoreInit ==
    /\ sysUp = 0 /\ sysDown = 0 /\ tcpConns = <<>> /\ udpConns = <<>>
    /\ now = 1
    /\ IdleMonitor /\ IdleApp
    /\ usage_records \in LegacyStores
    /\ daily_summaries = <<>> /\ app_metadata = <<>>
    /\ lastDbOp = [op |-> "open", at |-> 0, rows |-> 0]

\* flushBatch's statements on a batch of the moment
StoreInsert ==
    /\ \E buf \in StoreBatches(now) :
          /\ Len(usage_records) + Len(buf) <= MaxRows
          /\ StoreWrite(buf, BatchApps(buf), TRUE)
    /\ UNCHANGED <<appVars, osVars, now, monitorVars, threadVars, sampleVars>>

\* DeleteExpiredRecords returning nil; the outcome notes the statement it
\* followed
StoreExpire ==
    /\ usage_records' = DeleteExpiredRecords(usage_records, Unix(now))
    /\ lastDbOp' = [op |-> "expire", at |-> Unix(now),
                    rows |-> Len(usage_records) - Len(usage_records'),
                    after |-> <<lastDbOp.op, lastDbOp.at, lastDbOp.rows>>]
    /\ UNCHANGED <<appVars, osVars, now, monitorVars, threadVars, sampleVars,
                   daily_summaries, app_metadata>>

\* DeleteExpiredRecords returning the error of Exec
StoreExpireFails ==
    /\ lastDbOp' = Outcome("expire-failed", 0)
    /\ UNCHANGED <<appVars, osVars, now, monitorVars, threadVars, sampleVars, dbTables>>

StoreClock ==
    /\ now + HalfDay <= 1 + MaxHalfDays * HalfDay
    /\ now' = now + HalfDay
    /\ UNCHANGED <<appVars, osVars, monitorVars, threadVars, sampleVars, storeVars>>

StoreNext ==
    \/ StoreInsert
    \/ StoreExpire
    \/ StoreExpireFails
    \/ StoreClock

SpecStore == StoreInit /\ [][StoreNext]_vars

\* a step in which DeleteExpiredRecords runs right after a DeleteExpiredRecords
\* that succeeded, nothing inserted in between and the clock unchanged
SecondExpire ==
    /\ lastDbOp.op = "expire" /\ lastDbOp.at = Unix(now) /\ now' = now
    /\ lastDbOp'.op = "expire" /\ lastDbOp' # lastDbOp

\* C9: the second of two successive DeleteExpiredRecords calls deletes no
\* row and leaves the store as the first call left it.
C9_ExpireIdempotent ==
    [][SecondExpire =>
          /\ lastDbOp'.rows = 0
          /\ usage_records' = usage_records
          /\ daily_summaries' = daily_summaries
          /\ app_metadata' = app_metadata]_vars

\* the first call deleted rows, the second call has just run
C9_Witness ==
    /\ lastDbOp.op = "expire" /\ lastDbOp.rows = 0
    /\ lastDbOp.after[1] = "expire" /\ lastDbOp.after[2] = lastDbOp.at
    /\ lastDbOp.after[3] > 0

\* DeleteExpiredRecords has just run at the present second
JustExpired == lastDbOp.op = "expire" /\ lastDbOp.at = Unix(now)

RECURSIVE Unexpired(_, _)
Unexpired(table, t) ==
    IF table = <<>> THEN <<>>
    ELSE (IF ExpiresAtOf(Head(table)) > 0 /\ ExpiresAtOf(Head(table)) < t
          THEN <<>> ELSE <<Head(table)>>) \o Unexpired(Tail(table), t)

----------------------------------------------------------------------------
(* InsertUsageRecord: one row, retried while the database is locked.  An    *)
(* error text is kept word by word.                                        *)

maxRetries    == 5
BackoffMillis == 50

ExecErrors ==
    { <<"database", "is", "locked">>,
      <<"sqlite3:", "SQLITE_BUSY", "(5)">>,
      <<"database", "table", "is", "locked">>,
      <<"disk", "I/O", "error">> }

findSubstring(s, substr) ==
    \E i \in 0 .. (Len(s) - Len(substr)) : SubSeq(s, i + 1, i + Len(substr)) = substr

contains(s, substr) ==
    /\ Len(s) >= Len(substr)
    /\ \/ s = substr
       \/ /\ Len(s) > Len(substr)
          /\ \/ SubSeq(s, 1, Len(substr)) = substr
             \/ SubSeq(s, Len(s) - Len(substr) + 1, Len(s)) = substr
             \/ Len(s) > Len(substr) /\ findSubstring(s, substr)

\* contains(errStr, "database is locked") || contains(errStr, "SQLITE_BUSY")
IsLockError(e) ==
    contains(e, <<"database", "is", "locked">>) \/ contains(e, <<"SQLITE_BUSY">>)

RECURSIVE ShiftLeft(_, _)
\* x << n
ShiftLeft(x, n) == IF n = 0 THEN x ELSE 2 * ShiftLeft(x, n - 1)

\* variant: the backoff grows by 50 ms per attempt
BackoffLinear(i) == BackoffMillis * (i + 1)

\* backoff := time.Duration(50*(1<<uint(i))) * time.Millisecond
Backoff(i) == BackoffMillis * ShiftLeft(1, i)

\* the records a caller may hand to InsertUsageRecord at time t
InsertInputs(t) ==
    LET a == [processID |-> 1, uploadBytes |-> 9, downloadBytes |-> 19]
    IN  { [BatchRecordOf("a.exe", a, t) EXCEPT !.isTemporary = tmp] : tmp \in BOOLEAN }

\* InsertUsageRecord is called
InsertCall ==
    /\ ins.pc = "none"
    /\ Len(usage_records) < MaxRows
    /\ \E rec \in InsertInputs(now) :
          ins' = [pc |-> "exec", i |-> 0, waits |-> <<>>, err |-> <<>>, rec |-> rec]
    /\ UNCHANGED <<osVars, now, monitorVars, threadVars, sampleVars, storeVars,
                   DataRetention, applyPending, auxVars>>

\* one iteration of the retry loop: db.conn.Exec, then return nil, or
\* time.Sleep(backoff) and continue, or return err
InsertExec ==
    /\ ins.pc = "exec"
    /\ IF ins.i < maxRetries
       THEN \/ /\ usage_records' = Append(usage_records, UsageRow(ins.rec))
               /\ lastDbOp' = Outcome("insert", 1)
               /\ ins' = [ins EXCEPT !.pc = "returned", !.err = <<>>]
            \/ /\ \E e \in ExecErrors :
                     ins' = IF ins.i < maxRetries - 1 /\ IsLockError(e)
                            THEN [ins EXCEPT !.i = @ + 1, !.err = e,
                                             !.waits = Append(@, Backoff(ins.i))]
                            ELSE [ins EXCEPT !.pc = "returned", !.err = e]
               /\ UNCHANGED <<usage_records, lastDbOp>>
       ELSE /\ ins' = [ins EXCEPT !.pc = "returned",
                                  !.err = <<"failed", "to", "insert", "usage", "record",
                                            "after", "retries">>]
            /\ UNCHANGED <<usage_records, lastDbOp>>
    /\ UNCHANGED <<osVars, now, monitorVars, threadVars, sampleVars, daily_summaries,
                   app_metadata, DataRetention, applyPending, auxVars>>

\* the caller has the result
InsertReturn ==
    /\ ins.pc = "returned"
    /\ ins' = NoInsert
    /\ UNCHANGED <<osVars, now, monitorVars, threadVars, sampleVars, storeVars,
                   DataRetention, applyPending, auxVars>>

\* the cutoffs DeleteOldRecords is called with at second t
StoreCutoffs(t) == {t, t - SecondsPerDay}

\* DeleteOldRecords(cutoff) returning; the outcome notes the cutoff, the
\* error and the rows and summaries that matched
StoreDeleteOld ==
    /\ ins.pc = "none"
    /\ \E cutoff \in StoreCutoffs(Unix(now)), failAt \in {0, 1, 2} :
          LET r == DeleteOldRecords(usage_records, daily_summaries, cutoff, failAt)
          IN  /\ usage_records' = r.usage_records
              /\ daily_summaries' = r.daily_summaries
              /\ lastDbOp' = [op |-> "delete-old", at |-> Unix(now), cutoff |-> cutoff,
                              err |-> r.err,
                              rows |-> Len(usage_records) - Len(r.usage_records),
                              days |-> Cardinality(DOMAIN daily_summaries)
                                       - Cardinality(DOMAIN r.daily_summaries)]
    /\ UNCHANGED <<appVars, osVars, now, monitorVars, threadVars, sampleVars, app_metadata>>

\* a flush, between two calls of InsertUsageRecord
ApiFlush == ins.pc = "none" /\ StoreInsert

MaxApiHalfDays == 2

ApiClock ==
    /\ ins.pc = "none"
    /\ now + HalfDay <= 1 + MaxApiHalfDays * HalfDay
    /\ now' = now + HalfDay
    /\ UNCHANGED <<appVars, osVars, monitorVars, threadVars, sampleVars, storeVars>>

\* The store as one caller may use it: flushes, single inserts and
\* DeleteOldRecords, one call after the other, the clock moving by half days
ApiNext ==
    \/ ApiFlush
    \/ InsertCall
    \/ InsertExec
    \/ InsertReturn
    \/ StoreDeleteOld
    \/ ApiClock

SpecStoreApi == StoreInit /\ [][ApiNext]_vars


----------------------------------------------------------------------------
(* Properties of DeleteOldRecords and InsertUsageRecord *)

\* a step in which DeleteOldRecords returns nil
DeleteOldReturnsNil ==
    /\ lastDbOp'.op = "delete-old" /\ lastDbOp' # lastDbOp
    /\ lastDbOp'.err = "nil"

\* the daily summaries dated on the day of the cutoff or later
SummariesFrom(table, cutoff) ==
    [d \in {x \in DOMAIN table : x >= DateOf(cutoff)} |-> table[d]]

RECURSIVE RowsFrom(_, _)
\* the rows with a timestamp at or after the cutoff
RowsFrom(table, cutoff) ==
    IF table = <<>> THEN <<>>
    ELSE (IF Head(table).timestamp >= cutoff THEN <<Head(table)>> ELSE <<>>)
         \o RowsFrom(Tail(table), cutoff)

RECURSIVE RowsFromOrTemporary(_, _)
\* the rows with a timestamp at or after the cutoff, and the temporary rows
RowsFromOrTemporary(table, cutoff) ==
    IF table = <<>> THEN <<>>
    ELSE (IF Head(table).timestamp >= cutoff \/ Head(table).is_temporary = 1
          THEN <<Head(table)>> ELSE <<>>)
         \o RowsFromOrTemporary(Tail(table), cutoff)

RetryWaits == <<50, 100, 200, 400>>

\* the errors of Exec that say the database is busy or locked
LockErrors == {<<"database", "is", "locked">>, <<"sqlite3:", "SQLITE_BUSY", "(5)">>}

\* C18: InsertUsageRecord makes at most 5 attempts; it goes on to another
\* attempt only after a busy/locked error, having waited 50, 100, 200, 400 ms
\* before the 2nd .. 5th attempt; an error it returns leaves the table as it
\* was and is followed by no attempt; returning nil it has added the row, once.
C18_RetryPolicy ==
    [][ins' # ins =>
          /\ ins'.i + 1 <= 5
          /\ ins'.waits = SubSeq(RetryWaits, 1, ins'.i)
          /\ ins'.i = ins.i + 1 =>
                /\ ins'.err \in LockErrors
                /\ usage_records' = usage_records
          /\ (ins.pc = "exec" /\ ins'.pc = "returned" /\ ins'.err # <<>>) =>
                /\ usage_records' = usage_records
                /\ ins'.i = ins.i
          /\ (ins.pc = "exec" /\ ins'.pc = "returned" /\ ins'.err = <<>>) =>
                usage_records' = Append(usage_records, UsageRow(ins.rec))
          /\ ins.pc = "returned" => (ins'.pc = "none" /\ usage_records' = usage_records)]_vars

\* the fifth attempt has succeeded after four waits
C18_Witness ==
    /\ ins.pc = "returned" /\ ins.err = <<>>
    /\ ins.waits = RetryWaits
    /\ usage_records # <<>>
    /\ usage_records[Len(usage_records)] = UsageRow(ins.rec)


----------------------------------------------------------------------------
(* BatchInsertUsageRecords as a transaction: the disk-space guard, Begin,   *)
(* Prepare, one Exec per record, Commit; the deferred Rollback undoes what  *)
(* the transaction has inserted.                                           *)

DiskCheckThreshold == 100

\* where a call may fail: nowhere, in checkDiskSpace (large batches only), in
\* Begin, in Prepare, in the Exec of record k (the first, the second or the
\* last), in Commit
BatchFaults(buf) ==
    {[at |-> a, k |-> 0] : a \in {"none", "begin", "prepare", "commit"}}
    \cup (IF Len(buf) > DiskCheckThreshold THEN {[at |-> "disk", k |-> 0]} ELSE {})
    \cup {[at |-> "exec", k |-> k] : k \in {1, 2, Len(buf)} \cap (1 .. Len(buf))}

\* the table as the transaction sees it after the Exec of the first k records
TxInserted(table, buf, k) == table \o UsageRows(SubSeq(buf, 1, k))

\* variant: the rows inserted before the failure stay
KeepInserted(before, tx) == tx

\* defer tx.Rollback(), the transaction not committed
Rollback(before, tx) == before

\* BatchInsertUsageRecords(records) from entry to return
TryBatchInsert(table, buf, fault) ==
    IF Len(buf) = 0 THEN [table |-> table, err |-> "nil"]
    ELSE IF Len(buf) > DiskCheckThreshold /\ fault.at = "disk"
    THEN [table |-> table, err |-> "insufficient disk space"]
    ELSE IF fault.at \in {"begin", "prepare"}
    THEN [table |-> table, err |-> fault.at]
    ELSE IF fault.at = "exec"
    THEN [table |-> Rollback(table, TxInserted(table, buf, fault.k - 1)), err |-> "exec"]
    ELSE IF fault.at = "commit"
    THEN [table |-> Rollback(table, TxInserted(table, buf, Len(buf))), err |-> "commit"]
    ELSE [table |-> TxInserted(table, buf, Len(buf)), err |-> "nil"]

\* the batches a caller may hand over at time t: none, a few records, more
\* than DiskCheckThreshold records
BatchInputs(t) ==
    LET a == [processID |-> 1, uploadBytes |-> 9, downloadBytes |-> 19]
    IN  { [i \in 1 .. n |-> BatchRecordOf("a.exe", a, t)] :
             n \in {0, 1, MaxRows, DiskCheckThreshold + 1} }

\* one call of BatchInsertUsageRecords; the outcome notes the batch, where
\* the call failed and the error returned
BatchInsertCall ==
    /\ Len(usage_records) <= MaxRows
    /\ \E buf \in BatchInputs(now) : \E fault \in BatchFaults(buf) :
          LET r == TryBatchInsert(usage_records, buf, fault)
          IN  /\ usage_records' = r.table
              /\ lastDbOp' = [op |-> "batch-insert", at |-> Unix(now), rows |-> Len(buf),
                              batch |-> buf, fault |-> fault, err |-> r.err,
                              before |-> Len(usage_records)]
    /\ UNCHANGED <<appVars, osVars, now, monitorVars, threadVars, sampleVars,
                   daily_summaries, app_metadata>>

BatchNext ==
    \/ BatchInsertCall
    \/ ApiClock

SpecBatch == StoreInit /\ [][BatchNext]_vars

\* a step in which BatchInsertUsageRecords returns
BatchInsertReturns == lastDbOp'.op = "batch-insert" /\ lastDbOp' # lastDbOp

\* C17: when BatchInsertUsageRecords returns nil every record of the batch
\* has been added to usage_records, and when it returns an error (the
\* disk-space guard, Begin, Prepare, the Exec of any record, Commit) the table
\* is as it was before the call.
C17_AllOrNothing ==
    [][BatchInsertReturns =>
          IF lastDbOp'.err = "nil"
          THEN usage_records' = usage_records \o UsageRows(lastDbOp'.batch)
          ELSE usage_records' = usage_records]_vars

\* the call has just failed in the Exec of a record after the first, on a
\* table that held rows
C17_Witness ==
    /\ lastDbOp.op = "batch-insert" /\ lastDbOp.err # "nil"
    /\ lastDbOp.fault.at = "exec" /\ lastDbOp.fault.k > 1
    /\ lastDbOp.before > 0 /\ Len(usage_records) = lastDbOp.before


----------------------------------------------------------------------------
(* The App's retention tasks (app.go): minuteCleanup, hourlyCleanup,        *)
(* periodicCleanup and the goroutine UpdateSettings starts, over the store  *)
(* the monitor's flushes fill.                                             *)

Retentions     == {-1, 0, 1}
MinuteSeconds  == 60
HalfMinute     == 30 * UnitsPerSecond
MaxShortSteps  == 3
MaxDays        == 2
MaxPending     == 1
MaxRetentionRows == 2

\* variant: retention 0 keeps an hour
CutoffOfAnHour(retention, t) ==
    IF retention = 0 THEN Unix(t - 3600 * UnitsPerSecond)
    ELSE Unix(t - retention * SecondsPerDay * UnitsPerSecond)

\* retention 0: time.Now().Add(-1 * time.Minute).Unix()
\* retention N > 0: time.Now().AddDate(0, 0, -N).Unix()
RetentionCutoff(retention, t) ==
    IF retention = 0 THEN Unix(t - MinuteSeconds * UnitsPerSecond)
    ELSE Unix(t - retention * SecondsPerDay * UnitsPerSecond)

\* variant: keep-forever is pruned like retention 0
AgeBasedAlso(retention, task) == retention >= -1

\* which passes call DeleteOldRecords: hourlyCleanup under retention > 0, the
\* other tasks under retention >= 0
AgeBased(retention, task) ==
    IF task = "hourly" THEN retention > 0 ELSE retention >= 0

\* hourlyCleanup does not call DeleteExpiredRecords, the other tasks do
CallsDeleteExpired(task) == task # "hourly"

\* one pass of a task under the retention it has read: DeleteExpiredRecords
\* (an error is logged or ignored), then DeleteOldRecords (likewise); the
\* outcome notes the task, the retention, which statement of DeleteOldRecords
\* failed and how many rows and summaries the pass removed
CleanupPass(task, retention) ==
    \E expireFails \in BOOLEAN, failAt \in {0, 1, 2} :
       LET swept == IF CallsDeleteExpired(task) /\ ~expireFails
                    THEN DeleteExpiredRecords(usage_records, Unix(now))
                    ELSE usage_records
           cutoff == RetentionCutoff(retention, now)
           r == IF AgeBased(retention, task)
                THEN DeleteOldRecords(swept, daily_summaries, cutoff, failAt)
                ELSE [usage_records |-> swept, daily_summaries |-> daily_summaries,
                      err |-> "nil"]
       IN  /\ CallsDeleteExpired(task) \/ ~expireFails
           /\ AgeBased(retention, task) \/ failAt = 0
           /\ usage_records' = r.usage_records
           /\ daily_summaries' = r.daily_summaries
           /\ lastDbOp' = [op |-> "cleanup", at |-> Unix(now), task |-> task,
                           retention |-> retention, failAt |-> failAt,
                           rows |-> Len(usage_records) - Len(r.usage_records),
                           days |-> Cardinality(DOMAIN daily_summaries)
                                    - Cardinality(DOMAIN r.daily_summaries)]
           /\ UNCHANGED app_metadata

\* minuteCleanup: doCleanup, at startup and on every tick
minuteCleanup ==
    /\ CleanupPass("minute", DataRetention)
    /\ UNCHANGED <<appVars, osVars, now, monitorVars, threadVars, sampleVars>>

\* hourlyCleanup: on every tick (30 minutes)
hourlyCleanup ==
    /\ CleanupPass("hourly", DataRetention)
    /\ UNCHANGED <<appVars, osVars, now, monitorVars, threadVars, sampleVars>>

\* periodicCleanup: on every tick (24 hours); Vacuum changes no row
periodicCleanup ==
    /\ CleanupPass("daily", DataRetention)
    /\ UNCHANGED <<appVars, osVars, now, monitorVars, threadVars, sampleVars>>

\* UpdateSettings(settings): on a change of DataRetention the monitor's
\* saving is switched and the goroutine applying the retention is started;
\* then settings.Save, whose error is what UpdateSettings returns, and
\* a.config = &settings unless Save failed
UpdateSettings(retention) ==
    /\ retention >= -2
    /\ IF retention # DataRetention
       THEN /\ Cardinality(applyPending) < MaxPending
            /\ saveEnabled' = (retention # -2)
            /\ applyPending' = applyPending \cup {retention}
       ELSE UNCHANGED <<saveEnabled, applyPending>>
    /\ \E saved \in BOOLEAN :
          /\ DataRetention' = IF saved THEN retention ELSE DataRetention
          /\ lastDbOp' = [op |-> "settings", at |-> Unix(now), rows |-> 0,
                          retention |-> retention,
                          spawned |-> (retention # DataRetention),
                          err |-> IF saved THEN "nil" ELSE "error"]
    /\ UNCHANGED <<osVars, now, sampleVars, dbTables, threadVars, ctx, stats, batch,
                   paused, lastUpdate, ins, auxVars>>

\* the goroutine of UpdateSettings, with the retention it was started with
ApplyRetention ==
    /\ \E retention \in applyPending :
          /\ CleanupPass("apply", retention)
          /\ applyPending' = applyPending \ {retention}
    /\ UNCHANGED <<osVars, now, monitorVars, threadVars, sampleVars, DataRetention, ins,
                   auxVars>>

\* flushBatch writing a batch of one record, saving enabled
RetentionFlush ==
    /\ saveEnabled
    /\ Len(usage_records) < MaxRetentionRows
    /\ LET a == [processID |-> 1, uploadBytes |-> 9, downloadBytes |-> 19]
           buf == <<BatchRecordOf("a.exe", a, now)>>
       IN  StoreWrite(buf, BatchApps(buf), TRUE)
    /\ UNCHANGED <<appVars, osVars, now, monitorVars, threadVars, sampleVars>>

\* time passes: half a minute during the first MaxShortSteps half minutes,
\* else on to the next midnight
RetentionClock ==
    /\ \/ /\ now + HalfMinute <= 1 + MaxShortSteps * HalfMinute
          /\ now' = now + HalfMinute
       \/ /\ (DateOf(Unix(now)) + 1) <= MaxDays
          /\ now' = (DateOf(Unix(now)) + 1) * SecondsPerDay * UnitsPerSecond
    /\ UNCHANGED <<appVars, osVars, monitorVars, threadVars, sampleVars, storeVars>>

RetentionInit ==
    /\ sysUp = 0 /\ sysDown = 0 /\ tcpConns = <<>> /\ udpConns = <<>>
    /\ now = 1
    /\ IdleMonitor
    /\ DataRetention \in Retentions /\ applyPending = {} /\ ins = NoInsert
    /\ fs = OpenedFresh /\ IdleLocks
    /\ usage_records \in LegacyStores
    /\ daily_summaries = <<>> /\ app_metadata = <<>>
    /\ lastDbOp = [op |-> "open", at |-> 0, rows |-> 0]

RetentionNext ==
    \/ RetentionFlush
    \/ minuteCleanup
    \/ hourlyCleanup
    \/ periodicCleanup
    \/ \E retention \in Retentions : UpdateSettings(retention)
    \/ ApplyRetention
    \/ RetentionClock

SpecRetention == RetentionInit /\ [][RetentionNext]_vars


----------------------------------------------------------------------------
(* Properties of the retention tasks *)

\* a step in which a task's cleanup pass runs
CleanupStep == lastDbOp'.op = "cleanup" /\ lastDbOp' # lastDbOp

C13_PositiveRetention ==
    [][(CleanupStep /\ lastDbOp'.retention > 0) =>
          LET cutoff == Unix(now) - lastDbOp'.retention * SecondsPerDay
          IN  /\ lastDbOp'.failAt # 1 =>
                    \A i \in DOMAIN usage_records' : usage_records'[i].timestamp >= cutoff
              /\ lastDbOp'.failAt = 0 =>
                    \A d \in DOMAIN daily_summaries' : d >= DateOf(cutoff)
              /\ \A d \in DOMAIN daily_summaries :
                    d >= DateOf(cutoff) =>
                       /\ d \in DOMAIN daily_summaries'
                       /\ daily_summaries'[d] = daily_summaries[d]]_vars

\* a pass under a positive retention has just removed a row and a summary,
\* and the summary of the cutoff's day is still there
C13_Witness ==
    /\ lastDbOp.op = "cleanup" /\ lastDbOp.retention > 0 /\ lastDbOp.at = Unix(now)
    /\ lastDbOp.failAt = 0 /\ lastDbOp.rows > 0 /\ lastDbOp.days > 0
    /\ DateOf(Unix(now) - lastDbOp.retention * SecondsPerDay) \in DOMAIN daily_summaries

\* C14: a cleanup pass of any task under retention -1 leaves every daily
\* summary in place and removes no usage record other than those
\* DeleteExpiredRecords removes (0 < expiresAt < now).
C14_KeepForever ==
    [][(CleanupStep /\ lastDbOp'.retention = -1) =>
          /\ daily_summaries' = daily_summaries
          /\ app_metadata' = app_metadata
          /\ \/ usage_records' = usage_records
             \/ usage_records' = Unexpired(usage_records, Unix(now))]_vars

\* a pass under retention -1 has just removed an expired row; a summary of
\* an earlier day and a row without an expiry are still there
C14_Witness ==
    /\ lastDbOp.op = "cleanup" /\ lastDbOp.retention = -1 /\ lastDbOp.at = Unix(now)
    /\ lastDbOp.rows > 0
    /\ \E d \in DOMAIN daily_summaries : d < DateOf(Unix(now))
    /\ \E i \in DOMAIN usage_records : usage_records[i].expires_at = Null


----------------------------------------------------------------------------
(* Properties of the engine: failures, Stop *)

\* a step in which flushBatch runs with saving enabled and its batch insert
\* fails
FailedInsert ==
    /\ FlushStep /\ saveEnabled /\ batch # <<>>
    /\ lastDbOp'.op = "insert-failed"

\* C16: a flush whose batch insert fails stores no usage record, changes no
\* app metadata row and no daily summary, leaves the pending buffer empty
\* (the batch is not put back) and leaves the stat map as it was.
C16_FailedInsertAbortsFlush ==
    [][FailedInsert =>
          /\ usage_records' = usage_records
          /\ app_metadata' = app_metadata
          /\ daily_summaries' = daily_summaries
          /\ batch' = <<>>
          /\ stats' = stats]_vars

\* the batch insert of a flush has just failed: the buffer is empty, the
\* store holds what an earlier flush wrote, the stat map has its entries
C16_Witness ==
    /\ lastDbOp.op = "insert-failed" /\ lastDbOp.at = Unix(now)
    /\ batch = <<>> /\ stats # <<>>
    /\ usage_records # <<>>

\* a step in which a sample is attempted and the Counter Source fails: in
\* monitorLoop's tick, or in one of Start's two samples
SourceError ==
    /\ collectResult' = "error"
    /\ (monTicker /\ ~monTicker') \/ startPc' # startPc

\* C19: a sample that fails with a Counter Source error leaves the stat map
\* and the pending buffer as they were and does not end the monitoring,
\* whether monitorLoop or Start takes the sample.
C19_SourceErrorSkipsTick ==
    [][SourceError =>
          /\ stats' = stats
          /\ batch' = batch
          /\ startPc' # "failed"]_vars

\* both loops have returned
LoopsExited == monPc = "exited" /\ batchPc = "exited"

\* C20: once Stop has cancelled the context, the loops that were started
\* both exit; from then on nothing samples and nothing flushes (the stat map,
\* the buffer, the readings and the store stay as they are and the loops stay
\* exited), whatever Pause and Resume do.
C20_StoppedIsTerminal ==
    /\ (ctx = "cancelled" /\ monPc # "off") ~> LoopsExited
    /\ [][LoopsExited =>
             /\ monPc' = "exited" /\ batchPc' = "exited"
             /\ stats' = stats /\ batch' = batch /\ lastUpdate' = lastUpdate
             /\ samples' = samples /\ collectResult' = collectResult
             /\ usage_records' = usage_records
             /\ daily_summaries' = daily_summaries
             /\ app_metadata' = app_metadata]_vars

\* both loops have exited with a tick still waiting in each ticker's
\* channel, and Pause has been called
C20_Witness ==
    /\ LoopsExited /\ stopPc = "returned"
    /\ monTicker /\ batchTicker
    /\ paused


----------------------------------------------------------------------------
(* Properties of Pause and Resume, the goroutines interleaving *)

\* monitorLoop takes a tick from its ticker
TickTaken == monTicker /\ ~monTicker'

\* monitorLoop's call of collect returns
CollectReturns == monPc = "collect" /\ monPc' = "cleanup"

\* a step of monitorLoop: it takes a tick, or moves on in its iteration
MonitorLoopStep == TickTaken \/ (monPc' # monPc /\ monPc # "off")

\* C15 as claimed: while the monitor is paused no step of the sampling loop
\* changes the stat map, the time of the last update or the pending buffer.
C15_PausedLoopChangesNothing ==
    [][(MonitorLoopStep /\ paused /\ paused') =>
          /\ stats' = stats
          /\ lastUpdate' = lastUpdate
          /\ batch' = batch]_vars

\* C15 as amended: a tick that monitorLoop takes while paused is skipped
\* whole (no sample, no attribution, no sweep: the loop is back at its select
\* with the stat map and the buffer untouched), and a collect that finds
\* the monitor paused samples nothing; the ticker keeps firing while paused,
\* and a tick taken while not paused goes on to collect, which then samples.
C15_PausedTickSkipped ==
    [][/\ (TickTaken /\ paused) =>
             /\ monPc' = "idle"
             /\ stats' = stats /\ batch' = batch /\ lastUpdate' = lastUpdate
             /\ samples' = samples
       /\ (TickTaken /\ ~paused) => monPc' = "collect"
       /\ (CollectReturns /\ paused) =>
             /\ stats' = stats /\ batch' = batch /\ lastUpdate' = lastUpdate
             /\ samples' = samples /\ sysUp' = sysUp /\ sysDown' = sysDown
       /\ (CollectReturns /\ ~paused /\ collectResult' = "nil") => lastUpdate' = now
       /\ (now' # now /\ monPc = "idle") => monTicker']_vars

\* the monitor is paused and the loop is back at its select, the tick of the
\* latest clock step taken: a stat-map entry idle for longer than
\* CLEANUP_THRESHOLD is still there, which a tick that is not skipped removes
C15_Witness ==
    /\ paused /\ monPc = "idle" /\ ~monTicker /\ stopPc = "none"
    /\ \E n \in DOMAIN stats : now - stats[n].LastUpdate > CLEANUP_THRESHOLD


----------------------------------------------------------------------------
(* database.New (db.go): the integrity check of an existing file, the       *)
(* backup of a corrupted one, and the opening of the store. The tables      *)
(* stand for the content of the file at dbPath.                             *)

\* PRAGMA integrity_check on the file: nil when the result is "ok"
checkDatabaseIntegrity(db) == IF db = "corrupt" THEN "error" ELSE "nil"

\* the content of the file at dbPath
FileContent ==
    [usage_records |-> usage_records, daily_summaries |-> daily_summaries,
     app_metadata |-> app_metadata]

\* os.Rename(dbPath, dbPath + ".corrupted." + <now to the second>)
RenameAside(backups, t) ==
    [n \in DOMAIN backups \cup {Unix(t)} |->
        IF n = Unix(t) THEN FileContent ELSE backups[n]]

\* New(dbPath): MkdirAll; when the file exists and fails the integrity check,
\* os.Rename (a failure is printed) and os.Remove of -wal and -shm (failures
\* are ignored); then sql.Open, the pragmas and initSchema
New ==
    /\ ~fs.open
    /\ \E mkdirOk, renameOk, removeWal, removeShm, openOk \in BOOLEAN :
          LET bad   == fs.db # "absent" /\ checkDatabaseIntegrity(fs.db) # "nil"
              moved == bad /\ renameOk
              db1   == IF moved THEN "absent" ELSE fs.db
              wal1  == IF bad /\ removeWal THEN "none" ELSE fs.wal
              shm1  == IF bad /\ removeShm THEN "none" ELSE fs.shm
              bk1   == IF moved THEN RenameAside(fs.backups, now) ELSE fs.backups
          IN  IF ~mkdirOk
              THEN /\ fs' = [fs EXCEPT !.err = "error"]
                   /\ UNCHANGED storeVars
              ELSE /\ bad \/ (renameOk /\ removeWal /\ removeShm)
                   /\ fs' = IF openOk
                            THEN [db |-> IF db1 = "absent" THEN "ok" ELSE db1,
                                  wal |-> IF wal1 = "none" THEN "new" ELSE wal1,
                                  shm |-> IF shm1 = "none" THEN "new" ELSE shm1,
                                  backups |-> bk1, open |-> TRUE, err |-> "nil"]
                            ELSE [db |-> db1, wal |-> wal1, shm |-> shm1,
                                  backups |-> bk1, open |-> FALSE, err |-> "error"]
                   /\ IF moved
                      THEN usage_records' = <<>> /\ daily_summaries' = <<>>
                           /\ app_metadata' = <<>>
                      ELSE UNCHANGED dbTables
                   /\ lastDbOp' = [op |-> "open", at |-> Unix(now), rows |-> 0]
    /\ UNCHANGED <<osVars, now, monitorVars, threadVars, sampleVars, DataRetention,
                   applyPending, ins, lockVars>>

\* Close(): the last connection checkpoints and removes the side files
Close ==
    /\ fs.open
    /\ fs' = [fs EXCEPT !.open = FALSE, !.err = "none", !.wal = "none", !.shm = "none"]
    /\ UNCHANGED <<osVars, now, monitorVars, threadVars, sampleVars, storeVars,
                   DataRetention, applyPending, ins, lockVars>>

\* the process ends without Close: the side files stay behind, and the file
\* may be damaged
Crash ==
    /\ fs.open
    /\ \E damaged \in BOOLEAN :
          fs' = [fs EXCEPT !.open = FALSE, !.err = "none", !.wal = "old", !.shm = "old",
                           !.db = IF damaged THEN "corrupt" ELSE @]
    /\ UNCHANGED <<osVars, now, monitorVars, threadVars, sampleVars, storeVars,
                   DataRetention, applyPending, ins, lockVars>>

\* the files New may find: none, or netpus.db (intact or corrupted, with rows
\* of an earlier run) with or without side files left behind
OpenInit ==
    /\ sysUp = 0 /\ sysDown = 0 /\ tcpConns = <<>> /\ udpConns = <<>>
    /\ now = 1
    /\ IdleMonitor
    /\ DataRetention = DefaultRetention /\ applyPending = {} /\ ins = NoInsert
    /\ IdleLocks
    /\ \E d \in {"absent", "ok", "corrupt"}, w, h \in {"none", "old"} :
          /\ d = "absent" => (w = "none" /\ h = "none")
          /\ fs = [db |-> d, wal |-> w, shm |-> h, backups |-> <<>>,
                   open |-> FALSE, err |-> "none"]
          /\ usage_records \in IF d = "absent" THEN {<<>>} ELSE LegacyStores
    /\ daily_summaries = <<>> /\ app_metadata = <<>>
    /\ lastDbOp = [op |-> "none", at |-> 0, rows |-> 0]

OpenNext ==
    \/ New
    \/ Close
    \/ Crash
    \/ ApiClock

SpecOpen == OpenInit /\ [][OpenNext]_vars

\* a step in which New, finding a file that fails the integrity check,
\* returns a store
NewOverCorrupted == fs.db = "corrupt" /\ ~fs.open /\ fs'.open

\* C23: when New finds an existing file that fails the integrity check, the
\* store it returns is fresh and empty, the corrupted file is kept under the
\* name with the timestamp suffix, and the -wal and -shm files it left are
\* gone.
C23_CorruptedFileSetAside ==
    [][NewOverCorrupted =>
          /\ fs'.db = "ok"
          /\ usage_records' = <<>> /\ daily_summaries' = <<>> /\ app_metadata' = <<>>
          /\ Unix(now) \in DOMAIN fs'.backups
          /\ fs'.backups[Unix(now)] = FileContent
          /\ fs'.wal # "old" /\ fs'.shm # "old"]_vars


----------------------------------------------------------------------------
(* collect() call by call: the samples differ in the counters and in the    *)
(* connection tables, cleanupInactive and flushBatch run between them.     *)
(* Under the retention "do not save" (-2) startup has called               *)
(* SetSaveEnabled(false) and every flush discards the buffer.              *)

MaxBatch        == 2
MaxCollectClock == 15

\* the tables of Tables, and a table in which only b.exe has a connection
CollectTables == Tables \cup { <<<<>>, <<UdpRow(2)>>>> }

\* one collect() call, at least an UPDATE_INTERVAL after the one before
Sample ==
    /\ now >= lastUpdate + UPDATE_INTERVAL
    /\ Collect(Traffic, CollectTables, FALSE)
    /\ Len(batch') <= MaxBatch
    /\ UNCHANGED <<appVars, now, storeVars, threadVars, ctx, paused, saveEnabled>>

\* one cleanupInactive() call
Sweep ==
    /\ stats' = cleanupInactive(stats, now)
    /\ UNCHANGED <<appVars, osVars, now, storeVars, threadVars, sampleVars, ctx, batch,
                   paused, saveEnabled, lastUpdate>>

\* one flushBatch() call
CollectFlush ==
    /\ flushBatch
    /\ Len(usage_records') <= MaxBatch
    /\ UNCHANGED <<appVars, osVars, now, threadVars, sampleVars, ctx, stats, paused,
                   saveEnabled, lastUpdate>>

CollectClock ==
    /\ \E d \in ClockSteps :
          /\ now + d <= MaxCollectClock
          /\ now' = now + d
    /\ UNCHANGED <<appVars, osVars, monitorVars, threadVars, sampleVars, storeVars>>

CollectNext ==
    \/ Sample
    \/ Sweep
    \/ CollectFlush
    \/ CollectClock

CollectInit ==
    /\ sysUp = 10 /\ sysDown = 20
    /\ tcpConns = <<>> /\ udpConns = <<>>
    /\ now = 1
    /\ ctx = "live" /\ stats = <<>> /\ batch = <<>>
    /\ paused = FALSE /\ saveEnabled \in BOOLEAN /\ lastUpdate = 0
    /\ startPc = "new" /\ monPc = "off" /\ monTicker = FALSE
    /\ batchPc = "off" /\ batchTicker = FALSE /\ batchDue = 0
    /\ sleepUntil = 0 /\ stopPc = "none"
    /\ flPc = [p \in Callers |-> "none"]
    /\ flBuf = [p \in Callers |-> <<>>]
    /\ flNow = [p \in Callers |-> 0]
    /\ processes = <<>> /\ samples = <<>> /\ collectResult = "none"
    /\ EmptyStore
    /\ DataRetention = (IF saveEnabled THEN DefaultRetention ELSE -2)
    /\ applyPending = {} /\ ins = NoInsert /\ fs = OpenedFresh /\ IdleLocks

SpecCollect == CollectInit /\ [][CollectNext]_vars


\* a step in which collect() takes and applies a sample
SampleStep == lastUpdate' # lastUpdate

\* C25: after every tick, each entry that existed before the tick and got
\* no nonzero delta in it has UploadSpeed = 0 and DownloadSpeed = 0, also
\* when its name is in the snapshot with a share of zero.
C25_IdleEntriesSpeedZero ==
    [][SampleStep =>
          \A n \in DOMAIN stats :
              n \notin ActiveNames(processes') =>
                 /\ n \in DOMAIN stats'
                 /\ stats'[n].UploadSpeed = 0
                 /\ stats'[n].DownloadSpeed = 0]_vars


\* the names of the latest snapshot whose share is zero in both directions
ZeroNames(procs) == DOMAIN procs \ ActiveNames(procs)

\* how many records of the buffer are of the name
RecordsNamed(b, n) == Cardinality({i \in DOMAIN b : b[i].appName = n})

\* C26: a process whose apportioned delta is zero in both directions gets no
\* entry created, its entry (if it has one) is not touched, and no record of
\* it is appended; every record in the pending buffer and every usage record
\* a flush has written has uploadBytes # 0 or downloadBytes # 0.
C26_ZeroDeltaSkipped ==
    /\ [](\A i \in DOMAIN batch : batch[i].upload # 0 \/ batch[i].download # 0)
    /\ [](\A i \in DOMAIN usage_records :
             usage_records[i].upload_bytes # 0 \/ usage_records[i].download_bytes # 0)
    /\ [][SampleStep =>
             \A n \in ZeroNames(processes') :
                 /\ n \in DOMAIN stats => (n \in DOMAIN stats' /\ stats'[n] = stats[n])
                 /\ n \notin DOMAIN stats => n \notin DOMAIN stats'
                 /\ RecordsNamed(batch', n) = RecordsNamed(batch, n)]_vars

\* the latest sample gave b.exe a zero share and a.exe a nonzero one: b.exe
\* has an entry from an earlier sample, still with the speeds of that sample,
\* the buffer holds the record of a.exe and none of b.exe, and a flush has
\* written rows before
C26_Witness ==
    /\ "b.exe" \in ZeroNames(processes) /\ "a.exe" \in ActiveNames(processes)
    /\ lastUpdate = now
    /\ "b.exe" \in DOMAIN stats /\ stats["b.exe"].LastUpdate < now
    /\ RecordsNamed(batch, "a.exe") > 0 /\ RecordsNamed(batch, "b.exe") = 0
    /\ usage_records # <<>>


\* the names an entry of which this step updates: collect appends a record
\* of the name to the buffer in the same iteration
UpdatedNames ==
    {n \in DOMAIN stats' : RecordsNamed(batch', n) > RecordsNamed(batch, n)}

\* the record of the name appended last
LastRecordNamed(b, n) ==
    b[CHOOSE i \in DOMAIN b :
          b[i].appName = n /\ \A j \in DOMAIN b : b[j].appName = n => j <= i]

\* the entry's LastUpdate before the step, the zero time when it had none
PreviousUpdate(n) == IF n \in DOMAIN stats THEN stats[n].LastUpdate ELSE 0

\* the elapsed time the speed is taken over, in clock units: one second when
\* LastUpdate was unset or the elapsed time is not positive
ElapsedUnits(n) ==
    IF PreviousUpdate(n) = 0 \/ now - PreviousUpdate(n) <= 0
    THEN UnitsPerSecond
    ELSE now - PreviousUpdate(n)

\* C27: on every update of an entry its speeds are the delta divided by the
\* time elapsed since the entry's previous LastUpdate (truncated), the
\* elapsed time taken as one second when LastUpdate was unset or the elapsed
\* time is not positive; UploadSpeed and DownloadSpeed are >= 0 in every
\* reachable state.
C27_SpeedOverElapsedTime ==
    /\ [](\A n \in DOMAIN stats :
             stats[n].UploadSpeed >= 0 /\ stats[n].DownloadSpeed >= 0)
    /\ [][\A n \in UpdatedNames :
             LET rec == LastRecordNamed(batch', n)
             IN  /\ stats'[n].UploadSpeed =
                       (rec.upload * UnitsPerSecond) \div ElapsedUnits(n)
                 /\ stats'[n].DownloadSpeed =
                       (rec.download * UnitsPerSecond) \div ElapsedUnits(n)
                 /\ stats'[n].LastUpdate = now]_vars

\* a.exe has been updated twice, as a new entry and 3.5 s later: its speed
\* is now the delta over 3.5 s, below the delta and above zero
C27_Witness ==
    /\ "a.exe" \in DOMAIN stats
    /\ stats["a.exe"].LastUpdate = now
    /\ \E i, k \in DOMAIN batch :
          /\ i < k
          /\ batch[i].appName = "a.exe" /\ batch[k].appName = "a.exe"
          /\ LastRecordNamed(batch, "a.exe") = batch[k]
          /\ Unix(now) > batch[i].timestamp
          /\ stats["a.exe"].UploadSpeed =
                (batch[k].upload * UnitsPerSecond) \div (now - 1)
          /\ stats["a.exe"].UploadSpeed < batch[k].upload
          /\ stats["a.exe"].UploadSpeed > 0


----------------------------------------------------------------------------
(* The monitor lock by lock: collect() from its query of the Counter Source *)
(* to the release of statsMux, one step per iteration of its first loop;    *)
(* flushBatch per caller; a consumer calling GetStats.                      *)

MaxLockClock == 32
LockSteps    == {BATCH_INTERVAL \div 2}

\* the active names of the snapshot in the order the loop visits them
RECURSIVE ActiveSeq(_, _)
ActiveSeq(names, procs) ==
    IF names = <<>> THEN <<>>
    ELSE (IF Head(names) \in ActiveNames(procs) THEN <<Head(names)>> ELSE <<>>)
         \o ActiveSeq(Tail(names), procs)

\* collect(): the test of m.paused, getNetworkProcesses() and
\* now := time.Now(), no lock held; an error of the Counter Source is
\* returned. col.pc = "skipped" records until the next call that this call
\* returned nil at the test of m.paused.
ColQuery ==
    /\ monPc = "collect" /\ col.pc \in {"none", "skipped"}
    /\ IF paused
       THEN /\ monPc' = "cleanup" /\ collectResult' = "nil"
            /\ col' = [NoCollect EXCEPT !.pc = "skipped"]
            /\ UNCHANGED <<osVars, processes, samples>>
       ELSE \/ /\ CounterSource(ConcTraffic, ConcTables)
               /\ \E procs \in getNetworkProcesses(sysUp', sysDown', tcpConns', udpConns') :
                     /\ processes' = procs
                     /\ col' = [NoCollect EXCEPT !.pc = "lock", !.procs = procs, !.t = now]
               /\ samples' = Remember([up |-> sysUp', down |-> sysDown'])
               /\ UNCHANGED <<monPc, collectResult>>
            \/ /\ monPc' = "cleanup" /\ collectResult' = "error"
               /\ UNCHANGED <<osVars, col, processes, samples>>
    /\ UNCHANGED <<DataRetention, applyPending, ins, fs, statsMux, batchMux, snap, now,
                   storeVars, monitorVars, startPc, monTicker, batchPc, batchTicker,
                   batchDue, sleepUntil, stopPc, flPc, flBuf, flNow>>

\* collect(): m.statsMux.Lock()
ColLock ==
    /\ col.pc = "lock" /\ statsMux = "free"
    /\ statsMux' = "collect"
    /\ col' = [col EXCEPT !.pc = "update", !.todo = ActiveSeq(NameOrder, col.procs),
                          !.before = stats]
    /\ UNCHANGED <<DataRetention, applyPending, ins, fs, batchMux, snap, osVars, now,
                   storeVars, monitorVars, threadVars, sampleVars>>

\* collect(), one iteration of the first loop for a name with a nonzero
\* share: the entry is created or updated and, under batchMux, its record is
\* appended
ColUpdate ==
    /\ col.pc = "update" /\ col.todo # <<>> /\ batchMux = "free"
    /\ LET n == Head(col.todo)
       IN  /\ stats' = [k \in DOMAIN stats \cup {n} |->
                           IF k = n THEN UpdatedStat(stats, n, col.procs[n], col.t)
                           ELSE stats[k]]
           /\ batch' = Append(batch, BatchRecordOf(n, col.procs[n], col.t))
    /\ col' = [col EXCEPT !.todo = Tail(@)]
    /\ UNCHANGED <<DataRetention, applyPending, ins, fs, statsMux, batchMux, snap, osVars,
                   now, storeVars, threadVars, sampleVars, ctx, paused, saveEnabled,
                   lastUpdate>>

\* variant: collect() returns without m.statsMux.Unlock()
StatsKept == "collect"

\* defer m.statsMux.Unlock(), run when collect() returns
StatsReleased == "free"

\* collect(): the second loop (speeds of the names not in the snapshot are
\* reset), m.lastUpdate = now, and the deferred m.statsMux.Unlock()
ColFinish ==
    /\ col.pc = "update" /\ col.todo = <<>>
    /\ stats' = [k \in DOMAIN stats |->
                    IF k \notin DOMAIN col.procs
                    THEN [stats[k] EXCEPT !.UploadSpeed = 0, !.DownloadSpeed = 0]
                    ELSE stats[k]]
    /\ lastUpdate' = col.t
    /\ statsMux' = StatsReleased
    /\ col' = NoCollect
    /\ monPc' = "cleanup" /\ collectResult' = "nil"
    /\ UNCHANGED <<DataRetention, applyPending, ins, fs, batchMux, snap, osVars, now,
                   storeVars, ctx, batch, paused, saveEnabled, processes, samples,
                   startPc, monTicker, batchPc, batchTicker, batchDue, sleepUntil,
                   stopPc, flPc, flBuf, flNow>>

\* variant: GetStats without m.statsMux.RLock()
NoReadLock == TRUE

\* m.statsMux.RLock(): no writer holds statsMux
ReadLock == statsMux = "free"

\* variant: stats[k] = v
AliasOf(n) == [shared |-> TRUE, val |-> stats[n]]

\* statCopy := *v; stats[k] = &statCopy
CopyOf(n) == [shared |-> FALSE, val |-> stats[n]]

\* GetStats(), called once by a consumer: under the read lock a new map with
\* a copy of every entry
GetStats ==
    /\ ReadLock
    /\ snap = <<>> /\ stats # <<>>
    /\ snap' = [n \in DOMAIN stats |-> CopyOf(n)]
    /\ UNCHANGED <<DataRetention, applyPending, ins, fs, statsMux, batchMux, col, osVars,
                   now, storeVars, monitorVars, threadVars, sampleVars>>

\* time passes, 5 s at a time, until Stop is called
LockClock ==
    /\ stopPc = "none"
    /\ \E d \in LockSteps :
          /\ now + d <= MaxLockClock
          /\ now' = now + d
    /\ monTicker' = TRUE
    /\ IF now' >= batchDue
       THEN /\ batchTicker' = TRUE
            /\ batchDue' = NextDue(batchDue, BATCH_INTERVAL, now')
       ELSE UNCHANGED <<batchTicker, batchDue>>
    /\ UNCHANGED <<appVars, osVars, monitorVars, sampleVars, storeVars, startPc, monPc,
                   batchPc, sleepUntil, stopPc, flPc, flBuf, flNow>>

\* Start has returned nil: its two samples, UPDATE_INTERVAL apart, found no
\* connection, and the two loops are at their select
RunningInit ==
    /\ sysUp = 30 /\ sysDown = 60 /\ tcpConns = <<>> /\ udpConns = <<>>
    /\ now = 1 + UPDATE_INTERVAL
    /\ ctx = "live" /\ stats = <<>> /\ batch = <<>>
    /\ paused = FALSE /\ saveEnabled = TRUE /\ lastUpdate = now
    /\ startPc = "started" /\ monPc = "idle" /\ monTicker = FALSE
    /\ batchPc = "idle" /\ batchTicker = FALSE /\ batchDue = now + BATCH_INTERVAL
    /\ sleepUntil = now /\ stopPc = "none"
    /\ flPc = [p \in Callers |-> "none"]
    /\ flBuf = [p \in Callers |-> <<>>]
    /\ flNow = [p \in Callers |-> 0]
    /\ processes = <<>> /\ collectResult = "nil"
    /\ samples = <<[up |-> 30, down |-> 60], [up |-> 30, down |-> 60]>>
    /\ EmptyStore /\ IdleApp

LockNext ==
    \/ MonTick
    \/ ColQuery
    \/ ColLock
    \/ ColUpdate
    \/ ColFinish
    \/ MonCleanup
    \/ MonDone
    \/ BatchTick
    \/ BatchDone
    \/ StopCancel
    \/ \E p \in Callers : FlushCheck(p)
    \/ \E p \in Callers : FlushSwap(p)
    \/ \E p \in Callers : FlushWrite(p)
    \/ GetStats
    \/ LockClock

SpecLocks == RunningInit /\ [][LockNext]_vars


----------------------------------------------------------------------------
(* Errors of the interactively triggered operations (app.go) *)

\* a step of the goroutine that the UpdateSettings call just returned started,
\* in which a statement of DeleteOldRecords fails
ApplyStepFails ==
    /\ lastDbOp.op = "settings" /\ lastDbOp.spawned
    /\ CleanupStep /\ lastDbOp'.task = "apply"
    /\ lastDbOp'.retention = lastDbOp.retention
    /\ lastDbOp'.failAt # 0

\* C21: when a storage step of the retention apply that an UpdateSettings
\* call triggered fails, that call has returned an error (it reports success
\* only if every storage step it ran succeeded).
C21_ApplyErrorReturned ==
    [][ApplyStepFails => lastDbOp.err # "nil"]_vars


----------------------------------------------------------------------------
(* App metadata across flushes *)

\* the metadata rows that exist keep their first_seen
FirstSeenKept ==
    \A a \in DOMAIN app_metadata :
        /\ a \in DOMAIN app_metadata'
        /\ app_metadata'[a].first_seen = app_metadata[a].first_seen

\* the metadata rows that exist do not go back in last_seen
LastSeenAdvances ==
    \A a \in DOMAIN app_metadata :
        /\ a \in DOMAIN app_metadata'
        /\ app_metadata'[a].last_seen >= app_metadata[a].last_seen

\* C22 as stated: for every app name, over every step of the monitor with
\* its flushes interleaving, the stored firstSeen never changes once the row
\* exists and the stored lastSeen never decreases.
C22_LastSeenNeverDecreases ==
    [][FirstSeenKept /\ LastSeenAdvances]_vars


----------------------------------------------------------------------------
(* The pending buffer between the sampler and the flushes *)

\* a flush that takes a buffer takes all of the pending buffer and leaves an
\* empty one; the other flush's buffer stays as it is
SwapTakesAll ==
    \A p \in Callers :
        (flBuf[p] = <<>> /\ flBuf'[p] # <<>>)
            => /\ flBuf'[p] = batch
               /\ batch' = <<>>
               /\ \A q \in Callers \ {p} : flBuf'[q] = flBuf[q]

\* an append extends the pending buffer and leaves the taken buffers alone
AppendKeepsTaken ==
    (batch' # batch /\ batch' # <<>>)
        => /\ Len(batch') = Len(batch) + 1
           /\ SubSeq(batch', 1, Len(batch)) = batch
           /\ flBuf' = flBuf

\* a batch insert writes the rows of one taken buffer, which is then gone
InsertWritesTaken ==
    usage_records' # usage_records
        => \E p \in Callers :
              /\ flBuf[p] # <<>> /\ flBuf'[p] = <<>>
              /\ usage_records' = BatchInsertUsageRecords(usage_records, flBuf[p])
              /\ \A q \in Callers \ {p} : flBuf'[q] = flBuf[q]
              /\ batch' = batch

\* the pending buffer changes only by an append or by a flush taking it, and
\* a taken buffer only by being taken or by its flush finishing
BuffersMoveOnly ==
    /\ batch' # batch
          => \/ batch' # <<>>
             \/ \E p \in Callers : flBuf[p] = <<>> /\ flBuf'[p] = batch
    /\ \A p \in Callers :
          flBuf'[p] # flBuf[p] => (flBuf[p] = <<>> \/ flBuf'[p] = <<>>)

----------------------------------------------------------------------------
(* Locks and storage I/O *)

\* a flushBatch call has taken its buffer and has not returned from the
\* storage write
FlushBlocked == \E p \in Callers : flPc[p] = "write"

\* the steps of a collect() call in progress
CollectStep == ColQuery \/ ColLock \/ ColUpdate \/ ColFinish

\* C29: while a flushBatch call is in its storage write it holds neither
\* batchMux nor statsMux; collect holds statsMux exactly while it applies its
\* in-memory update, not while it queries the Counter Source; and while a
\* flush is blocked in the write a collect in progress has a step to take and
\* GetStats is kept out by a collect's update only.
C29_NoLockAcrossStorageWrite ==
    /\ \A p \in Callers : flPc[p] = "write" => (batchMux # p /\ statsMux # p)
    /\ (statsMux = "collect") <=> (col.pc = "update")
    /\ (FlushBlocked /\ monPc = "collect") => ENABLED CollectStep
    /\ (FlushBlocked /\ col.pc # "update" /\ snap = <<>> /\ stats # <<>>) => ENABLED GetStats

\* the loop's flush is still in its write, and a tick that sampled after the
\* flush took its buffer has completed and GetStats has returned its entries
C29_Witness ==
    /\ flPc["loop"] = "write"
    /\ monPc # "collect"
    /\ batch # <<>>
    /\ \E n \in DOMAIN snap : snap[n].val.LastUpdate > flNow["loop"]


----------------------------------------------------------------------------
(* What a GetStats call can see of a tick *)

\* the values a snapshot holds
SnapshotValues(sn) == [n \in DOMAIN sn |-> sn[n].val]

\* C30: a GetStats call never returns a partially applied tick: when it
\* returns while a collect is between its first per-process update and its
\* release of statsMux, the snapshot is the map as it was before that
\* collect's updates (none of them); otherwise every collect so far has
\* applied all of its updates, lastUpdate and speed resets.
C30_NoPartialTickObserved ==
    [][(snap' # snap /\ col.pc = "update") => SnapshotValues(snap') = col.before]_vars

\* GetStats has returned the entries of a tick that updated two processes,
\* both with that tick's time, while the next collect has queried the
\* Counter Source and waits for statsMux
C30_Witness ==
    /\ DOMAIN snap = {"a.exe", "b.exe"}
    /\ snap["a.exe"].val.LastUpdate = snap["b.exe"].val.LastUpdate
    /\ col.pc = "lock" /\ col.t > snap["a.exe"].val.LastUpdate


----------------------------------------------------------------------------
(* A consumer of GetStats: it keeps the returned map while the monitor goes *)
(* on sampling, and writes to what it was given.                            *)

\* what the consumer reads through the returned map: a copy is a cell of its
\* own, an entry that is the monitor's own pointer reads the monitor's cell
SnapshotView ==
    [n \in DOMAIN snap |->
        IF snap[n].shared /\ n \in DOMAIN stats THEN stats[n] ELSE snap[n].val]

\* the consumer deletes a key of the returned map, or assigns to a field of
\* a returned NetworkStat through its pointer
Consume ==
    /\ snap # <<>>
    /\ \E n \in DOMAIN snap :
          \/ /\ snap' = [k \in DOMAIN snap \ {n} |-> snap[k]]
             /\ UNCHANGED stats
          \/ IF snap[n].shared /\ n \in DOMAIN stats
             THEN /\ stats' = [stats EXCEPT ![n].TotalUpload = 0]
                  /\ UNCHANGED snap
             ELSE /\ snap' = [snap EXCEPT ![n].val.TotalUpload = 0]
                  /\ UNCHANGED stats
    /\ UNCHANGED <<DataRetention, applyPending, ins, fs, statsMux, batchMux, col, osVars,
                   now, storeVars, threadVars, sampleVars, ctx, batch, paused,
                   saveEnabled, lastUpdate>>

SnapshotNext ==
    \/ Sample
    \/ Sweep
    \/ CollectFlush
    \/ CollectClock
    \/ GetStats
    \/ Consume

\* a new monitor after SetSaveEnabled(false), so that what it samples is
\* only ever seen through GetStats
SnapshotInit == CollectInit /\ ~saveEnabled

SpecSnapshot == SnapshotInit /\ [][SnapshotNext]_vars

\* C24: GetStats returns copies: a consumer's deletion from the returned map
\* or assignment to a returned NetworkStat leaves the monitor's stats as they
\* are, and no step of the monitor (sample, cleanup, flush) changes what the
\* consumer reads through a map already returned.
C24_GetStatsReturnsCopies ==
    [][(Consume => stats' = stats) /\ (snap' = snap => SnapshotView' = SnapshotView)]_vars

\* the consumer has zeroed a field of a returned entry, and a later tick has
\* updated the monitor's entry of the same name
C24_Witness ==
    \E n \in DOMAIN snap \cap DOMAIN stats :
        /\ snap[n].val.TotalUpload = 0
        /\ stats[n].TotalUpload > 0
        /\ stats[n].LastUpdate > snap[n].val.LastUpdate


----------------------------------------------------------------------------
(* Start's two samples *)

\* a periodic tick or a periodic flush is taken from its ticker
PeriodicStep == (monTicker /\ ~monTicker') \/ (batchTicker /\ ~batchTicker')

\* Start returns nil
StartReturnsNil == startPc = "sleep" /\ startPc' = "started"

\* C31: Start takes two samples one UPDATE_INTERVAL apart before it starts
\* the loops: until the second sample has returned nil neither loop exists
\* and no periodic tick or flush is taken; the second sample is taken no
\* sooner than UPDATE_INTERVAL after the first; and when either sample fails
\* Start has failed for good and the loops are never started.
C31_TwoSamplesBeforeLoops ==
    /\ [](startPc # "started" => (monPc = "off" /\ batchPc = "off"))
    /\ [][/\ PeriodicStep => startPc = "started"
          /\ StartReturnsNil => (now >= sleepUntil /\ collectResult' = "nil")
          /\ (collectResult' = "error" /\ startPc # "started") => startPc' = "failed"
          /\ startPc = "failed" => startPc' = "failed"]_vars

\* Start has returned nil: its second sample, taken after the sleep, found
\* connections, and both loops are at their select
C31_Witness ==
    /\ startPc = "started"
    /\ Len(samples) = 2
    /\ DOMAIN stats # {}
    /\ lastUpdate >= sleepUntil
    /\ monPc = "idle" /\ batchPc = "idle"


----------------------------------------------------------------------------
(* Pause and Resume against one iteration of monitorLoop *)

PauseNext ==
    \/ MonTick
    \/ ColQuery
    \/ ColLock
    \/ ColUpdate
    \/ ColFinish
    \/ MonCleanup
    \/ Pause
    \/ Resume
    \/ LockClock

SpecPause == RunningInit /\ [][PauseNext]_vars

\* monitorLoop's call of cleanupInactive, after a collect that found the
\* monitor paused and returned without sampling
SweepAfterSkippedCollect ==
    monPc = "cleanup" /\ monPc' = "idle" /\ col.pc = "skipped"

\* C33 as stated: in no iteration of monitorLoop is collect skipped because
\* the monitor is paused while cleanupInactive of the same iteration still
\* removes entries from the stats map.
C33_SamePausedDecisionPerTick ==
    [][SweepAfterSkippedCollect => stats' = stats]_vars


----------------------------------------------------------------------------
(* An interactive change of the retention *)

\* UpdateSettings returns from a call that changed DataRetention
RetentionChangeReturns ==
    /\ lastDbOp'.op = "settings" /\ lastDbOp'.spawned
    /\ applyPending' # applyPending \/ lastDbOp' # lastDbOp

\* C32 as stated: when a request that changes the retention is reported as
\* done, the pending buffer has been flushed and the expiration deletion and
\* the age-based deletion for the new setting have run to completion.
C32_RetentionAppliedBeforeReturn ==
    [][RetentionChangeReturns => (batch' = <<>> /\ applyPending' = {})]_vars


----------------------------------------------------------------------------
(* Several pids under one display name *)

\* the pids of the tables that resolve to the name n
PidsNamed(n) == {p \in ResolvedPids(tcpConns, udpConns) : getProcessPath(p) = n}

\* the sum of the shares of a set of pids, of upload (dir = "up") or download
RECURSIVE SumShares(_, _)
SumShares(pids, dir) ==
    IF pids = {} THEN 0
    ELSE LET p == CHOOSE x \in pids : TRUE
             d == ProcessDataOf(p, LastReading.up, LastReading.down, tcpConns, udpConns)
         IN  (IF dir = "up" THEN d.uploadBytes ELSE d.downloadBytes)
             + SumShares(pids \ {p}, dir)

\* C34 as stated: the bytes getNetworkProcesses attributes to a display name
\* are the sum of the shares of all the pids of the snapshot that resolve to
\* that name, whatever the order in which the pids are visited.
C34_SameNameSharesSummed ==
    samples # <<>> =>
        \A n \in DOMAIN processes :
            /\ processes[n].uploadBytes = SumShares(PidsNamed(n), "up")
            /\ processes[n].downloadBytes = SumShares(PidsNamed(n), "down")


----------------------------------------------------------------------------
(* The monitor's persistence flag and the configured retention *)

\* the retentions a user chooses between here: "do not save", keep forever,
\* one day
SettingsRetentions == {-2, -1, 1}

\* startup has returned: New has set saveEnabled and startup has cleared it
\* when the loaded DataRetention is -2
SettingsInit ==
    /\ sysUp = 0 /\ sysDown = 0 /\ tcpConns = <<>> /\ udpConns = <<>>
    /\ now = 1
    /\ ctx = "nil" /\ stats = <<>> /\ batch = <<>>
    /\ paused = FALSE /\ lastUpdate = 0
    /\ startPc = "new" /\ monPc = "off" /\ monTicker = FALSE
    /\ batchPc = "off" /\ batchTicker = FALSE /\ batchDue = 0
    /\ sleepUntil = 0 /\ stopPc = "none"
    /\ flPc = [p \in Callers |-> "none"]
    /\ flBuf = [p \in Callers |-> <<>>]
    /\ flNow = [p \in Callers |-> 0]
    /\ processes = <<>> /\ samples = <<>> /\ collectResult = "none"
    /\ DataRetention \in SettingsRetentions
    /\ saveEnabled = (DataRetention # -2)
    /\ applyPending = {} /\ ins = NoInsert /\ fs = OpenedFresh /\ IdleLocks
    /\ usage_records \in LegacyStores
    /\ daily_summaries = <<>> /\ app_metadata = <<>>
    /\ lastDbOp = [op |-> "open", at |-> 0, rows |-> 0]

SettingsNext ==
    \/ \E retention \in SettingsRetentions : UpdateSettings(retention)
    \/ ApplyRetention
    \/ RetentionFlush
    \/ RetentionClock

SpecSettings == SettingsInit /\ [][SettingsNext]_vars

\* C35 as stated: after startup and after every UpdateSettings call, returned
\* with or without an error, the monitor's saveEnabled is false exactly when
\* the application's DataRetention is -2.
C35_FlagMatchesRetention ==
    saveEnabled <=> (DataRetention # -2)


----------------------------------------------------------------------------
(* GetMonitorStatus *)

\* GetMonitorStatus().Running: m.ctx != nil
Running == ctx # "nil"

\* C36 as stated: Running is true exactly when Start has returned nil and
\* Stop has not been called; it is false before Start, after a failed Start
\* and after Stop.
C36_RunningIffStarted ==
    Running <=> (startPc = "started" /\ stopPc = "none")


----------------------------------------------------------------------------
(* Daily summaries against the usage records *)

RECURSIVE RowsDownload(_)
RowsDownload(rows) ==
    IF rows = <<>> THEN 0 ELSE Head(rows).download_bytes + RowsDownload(Tail(rows))

\* the sum of a column over the summaries of the given dates
RECURSIVE SummedUpload(_, _)
SummedUpload(table, dates) ==
    IF dates = {} THEN 0
    ELSE LET d == CHOOSE x \in dates : TRUE
         IN  table[d].total_upload + SummedUpload(table, dates \ {d})

RECURSIVE SummedDownload(_, _)
SummedDownload(table, dates) ==
    IF dates = {} THEN 0
    ELSE LET d == CHOOSE x \in dates : TRUE
         IN  table[d].total_download + SummedDownload(table, dates \ {d})

\* C37 as stated: in every state reached by flushes with no deletion in
\* between, flushes with a failed storage step included, the daily
\* summaries' total_upload (total_download) add up to the sum of
\* upload_bytes (download_bytes) over the stored usage records.
C37_SummariesMatchRecords ==
    /\ SummedUpload(daily_summaries, DOMAIN daily_summaries) = RowsUpload(usage_records)
    /\ SummedDownload(daily_summaries, DOMAIN daily_summaries)
          = RowsDownload(usage_records)


----------------------------------------------------------------------------
(* All goroutines and callers together, lock by lock: the sampling loop,    *)
(* the flush loop, Stop, Pause and Resume, SetSaveEnabled and GetStats.     *)
(* pauseMux and saveMux guard one read or one write of a flag each, with no *)
(* other lock taken inside, so each such section is one step.               *)

MaxAllLocksClock == 22

\* time passes, up to the first firing of the batch ticker
AllLocksClock == LockClock /\ now' <= MaxAllLocksClock

AllLocksNext ==
    \/ MonTick
    \/ ColQuery
    \/ ColLock
    \/ ColUpdate
    \/ ColFinish
    \/ MonCleanup
    \/ MonDone
    \/ BatchTick
    \/ BatchDone
    \/ StopCancel
    \/ \E p \in Callers : FlushCheck(p)
    \/ \E p \in Callers : FlushDiscard(p)
    \/ \E p \in Callers : FlushSwap(p)
    \/ \E p \in Callers : FlushWrite(p)
    \/ Pause
    \/ Resume
    \/ \E e \in BOOLEAN : SetSaveEnabled(e)
    \/ GetStats
    \/ AllLocksClock

SpecAllLocks == RunningInit /\ [][AllLocksNext]_vars

\* a flushBatch call under way has a step it can take
FlushCanStep(p) ==
    flPc[p] # "none" =>
        ENABLED (FlushCheck(p) \/ FlushDiscard(p) \/ FlushSwap(p) \/ FlushWrite(p))

\* an iteration of monitorLoop under way has a step it can take
MonitorCanStep ==
    /\ monPc = "collect" => ENABLED CollectStep
    /\ monPc = "cleanup" => ENABLED MonCleanup

\* no call under way: the loops are at their select or gone, Stop is not
\* inside flushBatch
Quiescent ==
    /\ monPc \in {"idle", "exited"}
    /\ \A p \in Callers : flPc[p] = "none"

\* C38: no interleaving of the sampling loop, the flush loop, Stop, Pause and
\* Resume, SetSaveEnabled and GetStats deadlocks: batchMux is only ever taken
\* inside statsMux or alone and is not held while another lock is awaited,
\* every call under way can take a step, whoever holds statsMux can go on to
\* release it, and when no call is under way both locks are free.
C38_NoDeadlock ==
    /\ batchMux = "free"
    /\ statsMux \in {"free", "collect"}
    /\ (statsMux = "collect") => (monPc = "collect" /\ ENABLED (ColUpdate \/ ColFinish))
    /\ MonitorCanStep
    /\ \A p \in Callers : FlushCanStep(p)
    /\ Quiescent => (statsMux = "free" /\ batchMux = "free")

\* collect holds statsMux and is about to take batchMux for its append while
\* both flushBatch calls are under way, the monitor is paused meanwhile and
\* saving has been switched off
C38_Witness ==
    /\ statsMux = "collect" /\ col.todo # <<>>
    /\ flPc["loop"] # "none" /\ flPc["stop"] # "none"
    /\ paused /\ ~saveEnabled


----------------------------------------------------------------------------
(* GetNetworkUsageStats: the usage of the retention window *)

\* WHERE timestamp BETWEEN startTime AND endTime
RECURSIVE RowsBetween(_, _, _)
RowsBetween(table, startTime, endTime) ==
    IF table = <<>> THEN <<>>
    ELSE (IF Head(table).timestamp >= startTime /\ Head(table).timestamp <= endTime
          THEN <<Head(table)>> ELSE <<>>)
         \o RowsBetween(Tail(table), startTime, endTime)

RECURSIVE RowsOfApp(_, _)
RowsOfApp(rows, app) ==
    IF rows = <<>> THEN <<>>
    ELSE (IF Head(rows).app_name = app THEN <<Head(rows)>> ELSE <<>>)
         \o RowsOfApp(Tail(rows), app)

\* MAX(timestamp)
RECURSIVE MaxTimestamp(_)
MaxTimestamp(rows) ==
    IF rows = <<>> THEN 0
    ELSE LET rest == MaxTimestamp(Tail(rows))
         IN  IF Head(rows).timestamp > rest THEN Head(rows).timestamp ELSE rest

\* GROUP BY app_name of the given rows: SUM(upload_bytes),
\* SUM(download_bytes), MAX(timestamp) per app
Aggregated(rows) ==
    [a \in {rows[i].app_name : i \in DOMAIN rows} |->
        [total_upload   |-> RowsUpload(RowsOfApp(rows, a)),
         total_download |-> RowsDownload(RowsOfApp(rows, a)),
         last_seen      |-> MaxTimestamp(RowsOfApp(rows, a))]]

\* GetAppUsageStats(startTime, endTime), as a map from app name (the order
\* of the result, by total bytes, is left out)
GetAppUsageStats(table, startTime, endTime) ==
    Aggregated(RowsBetween(table, startTime, endTime))

\* GetAppUsageWithRetention(days): startTime is 0 for days == 0, else
\* time.Now().AddDate(0, 0, -days).Unix(); endTime is time.Now().Unix()
GetAppUsageWithRetention(table, days, t) ==
    LET startTime == IF days = 0 THEN 0 ELSE Unix(t) - days * SecondsPerDay
    IN  GetAppUsageStats(table, startTime, Unix(t))

\* App.GetNetworkUsageStats: days := a.config.DataRetention
GetNetworkUsageStats ==
    /\ lastDbOp' = [op |-> "usage-stats", at |-> Unix(now), rows |-> 0,
                    retention |-> DataRetention,
                    stats |-> GetAppUsageWithRetention(usage_records, DataRetention, now)]
    /\ UNCHANGED <<appVars, osVars, now, monitorVars, threadVars, sampleVars, dbTables>>

UsageNext ==
    \/ GetNetworkUsageStats
    \/ RetentionFlush
    \/ RetentionClock

SpecUsage == SettingsInit /\ [][UsageNext]_vars

\* GetNetworkUsageStats returns
UsageStatsReturned == lastDbOp'.op = "usage-stats" /\ lastDbOp' # lastDbOp

\* C39 as stated: under a retention of N > 0 days GetNetworkUsageStats
\* aggregates exactly the stored records with a timestamp in
\* [now - N days, now], and under keep-forever (-1) every stored record.
C39_UsageCoversRetentionWindow ==
    [][UsageStatsReturned =>
          /\ DataRetention > 0 =>
                lastDbOp'.stats =
                    Aggregated(RowsBetween(usage_records,
                                           Unix(now) - DataRetention * SecondsPerDay,
                                           Unix(now)))
          /\ DataRetention = -1 => lastDbOp'.stats = Aggregated(usage_records)]_vars

====
